---- MODULE Spec2Model ----
(***************************************************************************)
(* Verification model of neuroc's axon shrinker                            *)
(* (neuroc/axon_shrinker/shrink.py): the plane cut primitive, the          *)
(* cut-and-graft engine, the per-height loop and the batch driver.         *)
(*                                                                         *)
(* Numbers are exact: a coordinate, a diameter or a height is an integer   *)
(* number of grid units, and the inputs are chosen so that every linear    *)
(* interpolation lands on the grid (ModelArithmeticExact states it).       *)
(* Floating-point rounding is therefore not part of the model.             *)
(***************************************************************************)
EXTENDS Integers, Sequences, FiniteSets, TLC

\* ------------------------------------------------------------------ bounds
MaxFiles == 2
MaxSteps == 3
MaxPoints == 3
MaxClones == 2

\* --------------------------------------------------------------- constants
\* index of the Y coordinate of a point (sequences are 1-based here)
Y_INDEX == 2

NoSection == -1

\* ------------------------------------------------------------ vector tools
Abs(n) == IF n < 0 THEN -n ELSE n

VAdd(p, q) == <<p[1] + q[1], p[2] + q[2], p[3] + q[3]>>

VSub(p, q) == <<p[1] - q[1], p[2] - q[2], p[3] - q[3]>>

Last(s) == s[Len(s)]

Range(s) == {s[i] : i \in 1..Len(s)}

\* np.linalg.norm of one segment vector, rounded down to the grid
Norm(v) ==
    LET n == v[1] * v[1] + v[2] * v[2] + v[3] * v[3]
    IN  CHOOSE r \in 0..(Abs(v[1]) + Abs(v[2]) + Abs(v[3])) :
            r * r <= n /\ (r + 1) * (r + 1) > n

RECURSIVE SumSeq(_)
SumSeq(s) == IF s = <<>> THEN 0 ELSE Head(s) + SumSeq(Tail(s))

\* np.linalg.norm(np.diff(points, axis=0), axis=1).sum()
SectionLength(points) ==
    SumSeq([i \in 1..(Len(points) - 1) |-> Norm(VSub(points[i + 1], points[i]))])

\* ------------------------------------------------- the mutable morphology
\* A morphology owns its sections: sections maps an id to the section, a
\* section holds its type, its parent's id (NoSection for a root), the ids
\* of its children in order, its points and its diameters.  counter is the
\* id the next appended section gets.
Section(type, parent, children, points, diameters) ==
    [type |-> type, parent |-> parent, children |-> children,
     points |-> points, diameters |-> diameters]

Ids(m) == DOMAIN m.sections

\* morphology.iter(root): depth first, a section before its children
RECURSIVE IterDepth(_, _)
RECURSIVE IterDepthSeq(_, _)
IterDepth(m, id) == <<id>> \o IterDepthSeq(m, m.sections[id].children)

IterDepthSeq(m, ids) ==
    IF ids = <<>> THEN <<>>
    ELSE IterDepth(m, Head(ids)) \o IterDepthSeq(m, Tail(ids))

\* morphology.iter(section, upstream): the section, then its ancestors
RECURSIVE IterUpstream(_, _)
IterUpstream(m, id) ==
    IF m.sections[id].parent = NoSection THEN <<id>>
    ELSE <<id>> \o IterUpstream(m, m.sections[id].parent)

Reverse(s) == [i \in 1..Len(s) |-> s[Len(s) + 1 - i]]

\* mirror of a morphology through the plane y = 0
MirrorPoint(p) == <<p[1], -p[2], p[3]>>

MirrorY(m) ==
    [m EXCEPT !.sections =
        [id \in DOMAIN m.sections |->
            [m.sections[id] EXCEPT !.points =
                [i \in 1..Len(m.sections[id].points) |->
                    MirrorPoint(m.sections[id].points[i])]]]]

\* ------------------------------------------------------ Path-Length Index
\* sum(dist[upstream.id] for upstream in neuron.iter(section, upstream)), with
\* dist[id] the length of the section
RECURSIVE SumDist(_, _)
SumDist(neuron, ups) ==
    IF ups = <<>> THEN 0
    ELSE SectionLength(neuron.sections[Head(ups)].points) + SumDist(neuron, Tail(ups))

RECURSIVE PathLengthItems(_, _)
PathLengthItems(neuron, order) ==
    IF order = <<>> THEN <<>>
    ELSE <<<<Head(order), SumDist(neuron, IterUpstream(neuron, Head(order)))>>>>
         \o PathLengthItems(neuron, Tail(order))

\* section_path_lengths: the dict {section id: path length from the soma},
\* as the sequence of its items in insertion order
section_path_lengths(neuron, neurite) ==
    PathLengthItems(neuron, IterDepth(neuron, neurite))

\* faulty variant: of the items of maximal value the last one is kept
RECURSIVE MaxFrom_last_kept(_, _)
MaxFrom_last_kept(items, best) ==
    IF items = <<>> THEN best
    ELSE MaxFrom_last_kept(Tail(items),
                           IF Head(items)[2] >= best[2] THEN Head(items) ELSE best)

\* max(items, key=operator.itemgetter(1)): a later item replaces the best
\* one only when its value is greater
RECURSIVE MaxFrom(_, _)
MaxFrom(items, best) ==
    IF items = <<>> THEN best
    ELSE MaxFrom(Tail(items), IF Head(items)[2] > best[2] THEN Head(items) ELSE best)

MaxItem(items) == MaxFrom(Tail(items), Head(items))

\* ------------------------------------------------- cut/graft coordinates
\* faulty variant: the orientation is taken from the upper bounds
cut_and_graft_coordinate_upper_bounds(rules) ==
    LET upward == rules["dendrite"].y_max < rules["axon"].y_max
    IN  [upward |-> upward,
         y_start_cut |-> IF upward THEN rules["dendrite"].y_max
                                   ELSE rules["dendrite"].y_min,
         y_start_graft |-> IF upward THEN rules["axon"].y_min
                                     ELSE rules["axon"].y_max]

cut_and_graft_coordinate(rules) ==
    LET upward == rules["dendrite"].y_min < rules["axon"].y_min
    IN  [upward |-> upward,
         y_start_cut |-> IF upward THEN rules["dendrite"].y_max
                                   ELSE rules["dendrite"].y_min,
         y_start_graft |-> IF upward THEN rules["axon"].y_min
                                     ELSE rules["axon"].y_max]

\* ------------------------------------------- locating start_cut/start_graft
\* faulty variant: the first point of the section is tested
Crosses_first_point(points, y, upward) == upward = (points[1][Y_INDEX] > y)

\* the condition of lines 82 and 87 on the last point of a section
Crosses(points, y, upward) == upward = (Last(points)[Y_INDEX] > y)

\* faulty variant: without the continue of line 84, the section taken as
\* start_cut is tested for start_graft too
RECURSIVE ScanMainBranch_no_continue(_, _, _, _, _, _, _, _)
ScanMainBranch_no_continue(original, walk, i, upward, y_start_cut, y_start_graft, sc, sg) ==
    IF i > Len(walk) THEN [start_cut |-> sc, start_graft |-> sg]
    ELSE LET cut == IF sc = NoSection
                       /\ Crosses(original.sections[walk[i]].points, y_start_cut, upward)
                    THEN walk[i] ELSE sc
         IN  IF cut # NoSection /\ sg = NoSection
                /\ Crosses(original.sections[walk[i]].points, y_start_graft, upward)
             THEN [start_cut |-> cut, start_graft |-> walk[i]]
             ELSE ScanMainBranch_no_continue(original, walk, i + 1, upward,
                                             y_start_cut, y_start_graft, cut, sg)

\* the for loop of lines 81-89 from position i of the walk on
RECURSIVE ScanMainBranch(_, _, _, _, _, _, _, _)
ScanMainBranch(original, walk, i, upward, y_start_cut, y_start_graft, sc, sg) ==
    IF i > Len(walk) THEN [start_cut |-> sc, start_graft |-> sg]
    ELSE IF sc = NoSection
            /\ Crosses(original.sections[walk[i]].points, y_start_cut, upward)
         THEN ScanMainBranch(original, walk, i + 1, upward,
                             y_start_cut, y_start_graft, walk[i], sg)
    ELSE IF sc # NoSection /\ sg = NoSection
            /\ Crosses(original.sections[walk[i]].points, y_start_graft, upward)
         THEN [start_cut |-> sc, start_graft |-> walk[i]]
    ELSE ScanMainBranch(original, walk, i + 1, upward,
                        y_start_cut, y_start_graft, sc, sg)

AxonRoots(m) == SelectSeq(m.root_sections, LAMBDA id : m.sections[id].type = "axon")

\* the anchor of the walk: the axonal section of maximal path length
AxonEnd(original) ==
    MaxItem(section_path_lengths(original, AxonRoots(original)[1]))[1]

MainBranch(original) == Reverse(IterUpstream(original, AxonEnd(original)))

\* faulty variant: the test of line 71 is missing and the first axon is taken
get_start_cut_start_graft_sections_first_axon(original, upward, y_start_cut, y_start_graft) ==
    LET axons == AxonRoots(original)
        none == [exc |-> "", msg |-> "", start_cut |-> NoSection,
                 start_graft |-> NoSection]
    IN  IF axons = <<>>
        THEN [none EXCEPT !.exc = "NoAxon", !.msg = "Neuron has no axon"]
        ELSE LET found == ScanMainBranch(original, MainBranch(original), 1, upward,
                                         y_start_cut, y_start_graft,
                                         NoSection, NoSection)
             IN  IF found.start_cut = NoSection
                 THEN [none EXCEPT !.exc = "NoSectionToCut",
                                   !.msg = "No section to cut from"]
                 ELSE IF found.start_graft = NoSection
                 THEN [none EXCEPT !.exc = "NoSectionToCut",
                                   !.msg = "No section to graft from"]
                 ELSE [none EXCEPT !.start_cut = found.start_cut,
                                   !.start_graft = found.start_graft]

get_start_cut_start_graft_sections(original, upward, y_start_cut, y_start_graft) ==
    LET axons == AxonRoots(original)
        none == [exc |-> "", msg |-> "", start_cut |-> NoSection,
                 start_graft |-> NoSection]
    IN  IF axons = <<>>
        THEN [none EXCEPT !.exc = "NoAxon", !.msg = "Neuron has no axon"]
        ELSE IF Len(axons) > 1
        THEN [none EXCEPT !.exc = "TooManyAxons",
                          !.msg = "Neuron has more than one axon"]
        ELSE LET found == ScanMainBranch(original, MainBranch(original), 1, upward,
                                         y_start_cut, y_start_graft,
                                         NoSection, NoSection)
             IN  IF found.start_cut = NoSection
                 THEN [none EXCEPT !.exc = "NoSectionToCut",
                                   !.msg = "No section to cut from"]
                 ELSE IF found.start_graft = NoSection
                 THEN [none EXCEPT !.exc = "NoSectionToCut",
                                   !.msg = "No section to graft from"]
                 ELSE [none EXCEPT !.start_cut = found.start_cut,
                                   !.start_graft = found.start_graft]

\* --------------------------------------- Plane Cut/Interpolation Primitive
\* a / b for a divisor of either sign
Quot(a, b) == IF b < 0 THEN (-a) \div (-b) ELSE a \div b

\* faulty variant: the point at index2 is taken instead of the blend
_y_interpolate_no_blend(section, index1, index2, y) ==
    [point |-> section.points[index2 + 1], diameter |-> section.diameters[index2 + 1]]

\* faulty variant: the blend is always taken half way between the two points
_y_interpolate_midpoint(section, index1, index2, y) ==
    LET p1 == section.points[index1 + 1]
        p2 == section.points[index2 + 1]
        half(a, b) == a + Quot(b - a, 2)
    IN  [point |-> <<half(p1[1], p2[1]), half(p1[2], p2[2]), half(p1[3], p2[3])>>,
         diameter |-> half(section.diameters[index1 + 1], section.diameters[index2 + 1])]

\* p1 + frac * (p2 - p1) with frac = (y - p1.y) / (p2.y - p1.y); the indexes
\* are the source's, counted from 0
_y_interpolate(section, index1, index2, y) ==
    LET p1 == section.points[index1 + 1]
        p2 == section.points[index2 + 1]
        d1 == section.diameters[index1 + 1]
        d2 == section.diameters[index2 + 1]
        num == y - p1[Y_INDEX]
        den == p2[Y_INDEX] - p1[Y_INDEX]
        blend(a, b) == a + Quot(num * (b - a), den)
    IN  [point |-> <<blend(p1[1], p2[1]), blend(p1[2], p2[2]), blend(p1[3], p2[3])>>,
         diameter |-> blend(d1, d2)]

\* np.where((points[:, 1] > y_plane) == upward)[0]: the indexes, from 0
CutCondition(points, y_plane, upward) ==
    {i \in 0..(Len(points) - 1) : (points[i + 1][Y_INDEX] > y_plane) = upward}

\* [0][0] of it; -1 stands for the IndexError of an empty result
CutIndex(points, y_plane, upward) ==
    LET where == CutCondition(points, y_plane, upward)
    IN  IF where = {} THEN -1
        ELSE CHOOSE i \in where : \A j \in where : i <= j

\* faulty variant: the test of line 122 is missing and, at crossing index 0,
\* the first point stands for the interpolated one
cut_section_at_plane_coord_unguarded(section, y_plane, upward, cut_before) ==
    LET cut_index == CutIndex(section.points, y_plane, upward)
        new == IF cut_index > 0
               THEN _y_interpolate(section, cut_index - 1, cut_index, y_plane)
               ELSE [point |-> section.points[1], diameter |-> section.diameters[1]]
        n == Len(section.points)
    IN  IF cut_before
        THEN [section EXCEPT
                !.points = <<new.point>> \o SubSeq(section.points, cut_index + 1, n),
                !.diameters = <<new.diameter>>
                              \o SubSeq(section.diameters, cut_index + 1, n)]
        ELSE [section EXCEPT
                !.points = SubSeq(section.points, 1, cut_index) \o <<new.point>>,
                !.diameters = SubSeq(section.diameters, 1, cut_index)
                              \o <<new.diameter>>]

\* faulty variant: the slices keep one point too many
cut_section_at_plane_coord_off_by_one(section, y_plane, upward, cut_before) ==
    LET cut_index == CutIndex(section.points, y_plane, upward)
        new == _y_interpolate(section, cut_index - 1, cut_index, y_plane)
        n == Len(section.points)
    IN  IF cut_index > 0
        THEN IF cut_before
             THEN [section EXCEPT
                     !.points = <<new.point>> \o SubSeq(section.points, cut_index, n),
                     !.diameters = <<new.diameter>>
                                   \o SubSeq(section.diameters, cut_index, n)]
             ELSE [section EXCEPT
                     !.points = SubSeq(section.points, 1, cut_index + 1) \o <<new.point>>,
                     !.diameters = SubSeq(section.diameters, 1, cut_index + 1)
                                   \o <<new.diameter>>]
        ELSE section

\* the section after the call; a call that finds no crossing raises IndexError
\* (see NoCrossing) and leaves the section as it was
NoCrossing(section, y_plane, upward) == CutCondition(section.points, y_plane, upward) = {}

cut_section_at_plane_coord(section, y_plane, upward, cut_before) ==
    LET cut_index == CutIndex(section.points, y_plane, upward)
        new == _y_interpolate(section, cut_index - 1, cut_index, y_plane)
        n == Len(section.points)
    IN  IF cut_index > 0
        THEN IF cut_before
             THEN [section EXCEPT
                     !.points = <<new.point>> \o SubSeq(section.points, cut_index + 1, n),
                     !.diameters = <<new.diameter>>
                                   \o SubSeq(section.diameters, cut_index + 1, n)]
             ELSE [section EXCEPT
                     !.points = SubSeq(section.points, 1, cut_index) \o <<new.point>>,
                     !.diameters = SubSeq(section.diameters, 1, cut_index)
                                   \o <<new.diameter>>]
        ELSE section

\* --------------------------------------------------- tree accessor (morphio)
\* delete_section(section, recursive=True)
delete_section(m, id) ==
    LET gone == Range(IterDepth(m, id))
        parent == m.sections[id].parent
        kept == [s \in Ids(m) \ gone |-> m.sections[s]]
    IN  [m EXCEPT
           !.sections =
               IF parent = NoSection THEN kept
               ELSE [kept EXCEPT ![parent].children =
                        SelectSeq(kept[parent].children, LAMBDA c : c # id)],
           !.root_sections = SelectSeq(m.root_sections, LAMBDA r : r # id)]

RECURSIVE delete_sections(_, _)
delete_sections(m, ids) ==
    IF ids = <<>> THEN m
    ELSE delete_sections(delete_section(m, Head(ids)), Tail(ids))

\* append_section(parent, PointLevel(points, diameters)): the new section
\* takes the next id and its parent's type
append_new_section(m, parent, points, diameters) ==
    [m EXCEPT
       !.sections = [m.sections EXCEPT ![parent].children = @ \o <<m.counter>>]
                    @@ (m.counter :> Section(m.sections[parent].type, parent,
                                             <<>>, points, diameters)),
       !.counter = m.counter + 1]

\* append_section(parent, section, morphology): a copy of the section of the
\* other morphology and, recursively, of its descendants
RECURSIVE append_section(_, _, _, _)
RECURSIVE append_children(_, _, _, _)
append_section(m, parent, other, id) ==
    LET copy == Section(other.sections[id].type, parent, <<>>,
                        other.sections[id].points, other.sections[id].diameters)
        added == [m EXCEPT
                    !.sections = [m.sections EXCEPT
                                    ![parent].children = @ \o <<m.counter>>]
                                 @@ (m.counter :> copy),
                    !.counter = m.counter + 1]
    IN  append_children(added, m.counter, other, other.sections[id].children)

append_children(m, parent, other, ids) ==
    IF ids = <<>> THEN m
    ELSE append_children(append_section(m, parent, other, Head(ids)),
                         parent, other, Tail(ids))

\* ------------------------------------------------------ Cut-and-Graft Engine
\* faulty variant: start_cut is trimmed with cut_before true, which keeps the
\* points after the plane
cut_branch_keeps_far_side(neuron, upward, start_cut, y_start_cut) ==
    LET trimmed == [neuron EXCEPT !.sections[start_cut] =
                       cut_section_at_plane_coord(@, y_start_cut, upward, TRUE)]
    IN  delete_sections(trimmed, trimmed.sections[start_cut].children)

\* faulty variant: the descendants are deleted, start_cut is not trimmed
cut_branch_untrimmed(neuron, upward, start_cut, y_start_cut) ==
    delete_sections(neuron, neuron.sections[start_cut].children)

\* faulty variant: only the first child of start_cut is deleted
cut_branch_first_child_only(neuron, upward, start_cut, y_start_cut) ==
    LET trimmed == [neuron EXCEPT !.sections[start_cut] =
                       cut_section_at_plane_coord(@, y_start_cut, upward, FALSE)]
    IN  delete_sections(trimmed, SubSeq(trimmed.sections[start_cut].children, 1, 1))

cut_branch(neuron, upward, start_cut, y_start_cut) ==
    LET trimmed == [neuron EXCEPT !.sections[start_cut] =
                       cut_section_at_plane_coord(@, y_start_cut, upward, FALSE)]
    IN  delete_sections(trimmed, trimmed.sections[start_cut].children)

\* faulty variant: the height is taken as the Y coordinate of the end of the
\* segment, not as its length
add_vertical_segment_absolute_height(mut, start_cut, height) ==
    LET section == mut.sections[start_cut]
        vertical_segment == <<Last(section.points),
                              <<Last(section.points)[1], height, Last(section.points)[3]>>>>
    IN  [mut |-> append_new_section(mut, start_cut, vertical_segment,
                                    <<Last(section.diameters), Last(section.diameters)>>),
         section |-> mut.counter]

\* returns the morphology and the id of the appended section
add_vertical_segment(mut, start_cut, height) ==
    LET section == mut.sections[start_cut]
        vertical_segment == <<Last(section.points),
                              VAdd(Last(section.points), <<0, height, 0>>)>>
    IN  [mut |-> append_new_section(mut, start_cut, vertical_segment,
                                    <<Last(section.diameters), Last(section.diameters)>>),
         section |-> mut.counter]

\* faulty variant: the descendants are left where they were
translate_root_only(morphology, root, translation) ==
    [morphology EXCEPT !.sections[root].points =
        [i \in 1..Len(morphology.sections[root].points) |->
            VAdd(morphology.sections[root].points[i], translation)]]

\* faulty variant: every section of the morphology is moved
translate_whole_morphology(morphology, root, translation) ==
    [morphology EXCEPT !.sections =
        [id \in Ids(morphology) |->
            [morphology.sections[id] EXCEPT !.points =
                [i \in 1..Len(morphology.sections[id].points) |->
                    VAdd(morphology.sections[id].points[i], translation)]]]]

translate(morphology, root, translation) ==
    LET moved == Range(IterDepth(morphology, root))
    IN  [morphology EXCEPT !.sections =
            [id \in Ids(morphology) |->
                IF id \in moved
                THEN [morphology.sections[id] EXCEPT !.points =
                         [i \in 1..Len(morphology.sections[id].points) |->
                             VAdd(morphology.sections[id].points[i], translation)]]
                ELSE morphology.sections[id]]]

\* faulty variant: the translation is computed before the section is trimmed
graft_branch_untrimmed(new, original, upward, root, to_be_grafted, y_start_graft) ==
    LET translation == VSub(Last(new.sections[root].points),
                            original.sections[to_be_grafted].points[1])
        trimmed == [original EXCEPT !.sections[to_be_grafted] =
                       cut_section_at_plane_coord(@, y_start_graft, upward, TRUE)]
        moved == translate(trimmed, to_be_grafted, translation)
    IN  [new |-> append_section(new, root, moved, to_be_grafted),
         original |-> moved,
         result |-> translation[Y_INDEX]]

\* root is a section of new, to_be_grafted a section of original
graft_branch(new, original, upward, root, to_be_grafted, y_start_graft) ==
    LET trimmed == [original EXCEPT !.sections[to_be_grafted] =
                       cut_section_at_plane_coord(@, y_start_graft, upward, TRUE)]
        translation == VSub(Last(new.sections[root].points),
                            trimmed.sections[to_be_grafted].points[1])
        moved == translate(trimmed, to_be_grafted, translation)
    IN  [new |-> append_section(new, root, moved, to_be_grafted),
         original |-> moved,
         result |-> translation[Y_INDEX]]

\* --------------------------------------------------------- annotation files
\* neuroc.utils.xml: the sidecar holds, per neurite type, the two bounds as
\* text; read_placement_rules returns them as numbers and update_rule
\* replaces the two bounds of one entry by new text
Numerals == -100..100

ParseNumber(text) == CHOOSE n \in Numerals : ToString(n) = text

read_placement_rules(xml_tree) ==
    [k \in DOMAIN xml_tree |->
        [y_min |-> ParseNumber(xml_tree[k].y_min),
         y_max |-> ParseNumber(xml_tree[k].y_max)]]

update_rule(xml_tree, type, attributes) ==
    [xml_tree EXCEPT ![type] = [y_min |-> attributes.y_min, y_max |-> attributes.y_max]]

Interval(lo, hi) == [y_min |-> ToString(lo), y_max |-> ToString(hi)]

Annotation(dlo, dhi, alo, ahi) ==
    ("dendrite" :> Interval(dlo, dhi)) @@ ("axon" :> Interval(alo, ahi))

\* the annotation of the mirrored morphology
MirrorAnnotation(dlo, dhi, alo, ahi) == Annotation(-dhi, -dlo, -ahi, -alo)

\* ------------------------------------------------------- morphology files
FromSeq(s) == [id \in 0..(Len(s) - 1) |-> s[id + 1]]

Morph(roots, secs) ==
    [root_sections |-> roots, sections |-> FromSeq(secs), counter |-> Len(secs)]

\* an axon with a main branch 0-2-3-5, side branches 1, 4 and 6, and a dendrite
MUp ==
    Morph(<<0, 7>>,
      << Section("axon", NoSection, <<1, 2>>,
                 <<<<0, 0, 0>>, <<0, 10, 0>>, <<0, 20, 0>>>>, <<40, 40, 20>>),
         Section("axon", 0, <<>>, <<<<0, 20, 0>>, <<3, 24, 0>>>>, <<20, 20>>),
         Section("axon", 0, <<3, 6>>,
                 <<<<0, 20, 0>>, <<10, 30, 0>>, <<10, 40, 0>>>>, <<20, 30, 30>>),
         Section("axon", 2, <<4, 5>>,
                 <<<<10, 40, 0>>, <<10, 50, 0>>, <<10, 55, 0>>>>, <<30, 50, 50>>),
         Section("axon", 3, <<>>, <<<<10, 55, 0>>, <<10, 61, 8>>>>, <<50, 20>>),
         Section("axon", 3, <<>>, <<<<10, 55, 0>>, <<10, 70, 20>>>>, <<50, 20>>),
         Section("axon", 2, <<>>, <<<<10, 40, 0>>, <<14, 43, 0>>>>, <<30, 30>>),
         Section("dendrite", NoSection, <<8>>,
                 <<<<0, 0, 0>>, <<0, -10, 0>>>>, <<30, 30>>),
         Section("dendrite", 7, <<>>, <<<<0, -10, 0>>, <<-5, -10, 0>>>>, <<30, 10>>) >>)

MDown == MirrorY(MUp)

\* two terminal sections of the same path length
MTie ==
    Morph(<<0>>,
      << Section("axon", NoSection, <<1, 2>>,
                 <<<<0, 0, 0>>, <<0, 10, 0>>>>, <<20, 20>>),
         Section("axon", 0, <<>>, <<<<0, 10, 0>>, <<0, 30, 0>>>>, <<20, 40>>),
         Section("axon", 0, <<>>, <<<<0, 10, 0>>, <<20, 10, 0>>>>, <<20, 20>>) >>)

MNoAxon ==
    Morph(<<0>>,
      << Section("dendrite", NoSection, <<1>>,
                 <<<<0, 0, 0>>, <<0, 30, 0>>>>, <<30, 30>>),
         Section("dendrite", 0, <<>>, <<<<0, 30, 0>>, <<0, 60, 0>>>>, <<30, 10>>) >>)

MTwoAxons ==
    Morph(<<0, 1, 2>>,
      << Section("axon", NoSection, <<>>, <<<<0, 0, 0>>, <<0, 30, 0>>>>, <<20, 20>>),
         Section("axon", NoSection, <<>>, <<<<0, 0, 0>>, <<0, 60, 0>>>>, <<20, 20>>),
         Section("dendrite", NoSection, <<>>,
                 <<<<0, 0, 0>>, <<0, -10, 0>>>>, <<30, 30>>) >>)

File(name, stem, morphology, annotation) ==
    [name |-> name, stem |-> stem, morphology |-> morphology, annotation |-> annotation]

\* the input directory can hold any of these files, each with the annotation
\* file of the same stem
Library ==
    { File("trim_both.h5", "trim_both", MUp, Annotation(-50, 16, 46, 80)),
      File("trim_cut.h5", "trim_cut", MUp, Annotation(-50, 24, 30, 80)),
      File("trim_graft.h5", "trim_graft", MUp, Annotation(-50, -5, 25, 80)),
      File("trim_none.h5", "trim_none", MUp, Annotation(-50, -6, 18, 80)),
      File("no_graft.h5", "no_graft", MUp, Annotation(-50, 60, 65, 100)),
      File("no_cut.h5", "no_cut", MUp, Annotation(-50, 80, 90, 100)),
      File("down_both.h5", "down_both", MDown, MirrorAnnotation(-50, 16, 46, 80)),
      File("tie.h5", "tie", MTie, Annotation(-50, 4, 20, 50)),
      File("no_axon.h5", "no_axon", MNoAxon, Annotation(-50, 16, 46, 80)),
      File("two_axons.h5", "two_axons", MTwoAxons, Annotation(-50, 16, 46, 80)),
      File("no_annotation.h5", "no_annotation", MUp, "dendrite" :> Interval(-50, 16)),
      File("no_dendrite.h5", "no_dendrite", MUp, "axon" :> Interval(46, 80)) }

FileNames == {file.name : file \in Library}

Lookup(name) == CHOOSE file \in Library : file.name = name

\* xml.etree.ElementTree.parse(annotation_filename)
ParseXml(name) == Lookup(name).annotation

\* os.listdir(file_dir): the names, each once, in any order
Listings ==
    {dir \in UNION {[1..n -> FileNames] : n \in 1..MaxFiles} :
        \A i, j \in 1..Len(dir) : i # j => dir[i] # dir[j]}

\* the --heights option of the command line
HeightLists == {<<0, 12>>, <<12, 12>>}

\* np.linspace(0, stop, num)
linspace(stop, num) ==
    [i \in 1..num |-> IF num = 1 THEN 0 ELSE Quot(stop * (i - 1), num - 1)]

\* ------------------------------------------------------------ Jitter Engine
\* A scaling factor is counted in hundredths, which is how the options of
\* clone_army give it, and a coordinate of a tree the jitter engine works
\* on in 1/Grid of the unit of its file: two factors applied one after the
\* other then stay on the grid.
Percent == 100

Grid == Percent * Percent

\* the a_min of _clip_minimum_scaling, 0.01
MinimumScaling == 1

\* axis = None
AxisNone == -1

ScaleParameters(mean, std, axis) == [mean |-> mean, std |-> std, axis |-> axis]

RotationParameters(mean_angle, std_angle, numberpoint) ==
    [mean_angle |-> mean_angle, std_angle |-> std_angle, numberpoint |-> numberpoint]

\* ScaleParameters(): mean 1, std 0, every axis
DefaultScaling == ScaleParameters(Percent, 0, AxisNone)

\* np.diff(section.points, axis=0)
RECURSIVE Diff(_)
Diff(points) ==
    IF Len(points) < 2 THEN <<>>
    ELSE <<VSub(points[2], points[1])>> \o Diff(Tail(points))

\* faulty variant: the null vector is never prepended
_segment_vectors_never_prepended(points, prepend_null_vector) == Diff(points)

_segment_vectors(points, prepend_null_vector) ==
    IF prepend_null_vector THEN <<<<0, 0, 0>>>> \o Diff(points) ELSE Diff(points)

\* faulty variant: only negative factors are raised, to zero
_clip_minimum_scaling_at_zero(scalings) == IF scalings < 0 THEN 0 ELSE scalings

\* np.clip(scalings, a_min=0.01, a_max=None), of one factor
_clip_minimum_scaling(scalings) ==
    IF scalings < MinimumScaling THEN MinimumScaling ELSE scalings

\* faulty variant: the factor is put on every axis, whatever axis is asked
_broadcast_every_axis(scaling_factor, axis) == <<scaling_factor, scaling_factor, scaling_factor>>

\* the row _broadcast makes of one factor: the factor on every axis, or the
\* factor on the axis asked and 1 on the other two
_broadcast(scaling_factor, axis) ==
    IF axis = AxisNone
    THEN <<scaling_factor, scaling_factor, scaling_factor>>
    ELSE <<IF axis = 0 THEN scaling_factor ELSE Percent,
           IF axis = 1 THEN scaling_factor ELSE Percent,
           IF axis = 2 THEN scaling_factor ELSE Percent>>

\* the product of a factor and a length
Times(factor, x) == Quot(factor * x, Percent)

\* np.multiply(scaling_factors, vectors), row by row
RECURSIVE Multiply(_, _, _)
Multiply(samples, axis, vectors) ==
    IF vectors = <<>> THEN <<>>
    ELSE LET row == _broadcast(_clip_minimum_scaling(Head(samples)), axis)
             v == Head(vectors)
         IN  <<<<Times(row[1], v[1]), Times(row[2], v[2]), Times(row[3], v[3])>>>>
             \o Multiply(Tail(samples), axis, Tail(vectors))

\* np.cumsum(vectors, axis=0), started from the sum so far
RECURSIVE CumSum(_, _)
CumSum(vectors, sum) ==
    IF vectors = <<>> THEN <<>>
    ELSE <<VAdd(sum, Head(vectors))>> \o CumSum(Tail(vectors), VAdd(sum, Head(vectors)))

\* cumulative_vectors *= factor, on every axis or on the axis asked
RECURSIVE SectionScale(_, _, _)
SectionScale(cumulative_vectors, factor, axis) ==
    IF cumulative_vectors = <<>> THEN <<>>
    ELSE LET row == _broadcast(factor, axis)
             v == Head(cumulative_vectors)
         IN  <<<<Times(row[1], v[1]), Times(row[2], v[2]), Times(row[3], v[3])>>>>
             \o SectionScale(Tail(cumulative_vectors), factor, axis)

RECURSIVE Anchored(_, _)
Anchored(first, cumulative_vectors) ==
    IF cumulative_vectors = <<>> THEN <<>>
    ELSE <<VAdd(first, Head(cumulative_vectors))>>
         \o Anchored(first, Tail(cumulative_vectors))

\* faulty variant: the cumulative vectors are taken as the new points, the
\* first point of the section is not added
new_points_unanchored(points, segment_scaling, section_scaling, sampled) ==
    SectionScale(CumSum(Multiply(sampled.segments, segment_scaling.axis,
                                 _segment_vectors(points, TRUE)), <<0, 0, 0>>),
                 _clip_minimum_scaling(sampled.section), section_scaling.axis)

\* lines 149-164 of _recursive_scale: the new points of a section, given
\* what the normal law gave: one factor per point and one for the section
new_points(points, segment_scaling, section_scaling, sampled) ==
    LET vectors == Multiply(sampled.segments, segment_scaling.axis,
                            _segment_vectors(points, TRUE))
        cumulative_vectors ==
            SectionScale(CumSum(vectors, <<0, 0, 0>>),
                         _clip_minimum_scaling(sampled.section), section_scaling.axis)
    IN  Anchored(points[1], cumulative_vectors)

RECURSIVE ShiftPoints(_, _)
ShiftPoints(points, shift) ==
    IF points = <<>> THEN <<>>
    ELSE <<VAdd(Head(points), shift)>> \o ShiftPoints(Tail(points), shift)

\* faulty variant: the section is moved, its descendants stay
transform_translate_section_only(m, id, shift) ==
    [m EXCEPT !.sections[id].points = ShiftPoints(@, shift)]

\* morph_tool.transform.translate(section, shift): the section and its
\* descendants
transform_translate(m, id, shift) ==
    LET moved == Range(IterDepth(m, id))
    IN  [m EXCEPT !.sections =
            [s \in Ids(m) |->
                IF s \in moved
                THEN [m.sections[s] EXCEPT !.points = ShiftPoints(@, shift)]
                ELSE m.sections[s]]]

RECURSIVE TranslateEach(_, _, _)
TranslateEach(m, ids, shift) ==
    IF ids = <<>> THEN m
    ELSE TranslateEach(transform_translate(m, Head(ids), shift), Tail(ids), shift)

\* sampled[id]: what the normal law gives while section id is scaled
RECURSIVE _recursive_scale(_, _, _, _, _)
RECURSIVE ScaleEach(_, _, _, _, _)
ScaleEach(m, ids, segment_scaling, section_scaling, sampled) ==
    IF ids = <<>> THEN m
    ELSE ScaleEach(_recursive_scale(m, Head(ids), segment_scaling, section_scaling, sampled),
                   Tail(ids), segment_scaling, section_scaling, sampled)

_recursive_scale(m, id, segment_scaling, section_scaling, sampled) ==
    LET children == m.sections[id].children
        points == m.sections[id].points
        new == new_points(points, segment_scaling, section_scaling, sampled[id])
        children_translation == VSub(Last(new), Last(points))
        scaled == ScaleEach(m, children, segment_scaling, section_scaling, sampled)
        moved == TranslateEach(scaled, children, children_translation)
    IN  [moved EXCEPT !.sections[id].points = new]

scale_morphology(neuron, segment_scaling, section_scaling, sampled) ==
    ScaleEach(neuron, neuron.root_sections, segment_scaling, section_scaling, sampled)

\* ---------------------------------------------------------- rotational pass
\* Angles are whole quarter turns in degrees and rotation axes are axes of
\* the frame: every rotation then maps the grid onto itself.
Dot(u, v) == u[1] * v[1] + u[2] * v[2] + u[3] * v[3]

Cross(u, v) ==
    <<u[2] * v[3] - u[3] * v[2], u[3] * v[1] - u[1] * v[3], u[1] * v[2] - u[2] * v[1]>>

Scaled(a, v) == <<a * v[1], a * v[2], a * v[3]>>

QuarterTurns(angle) == (angle \div 90) % 4

Cos(angle) == <<1, 0, -1, 0>>[QuarterTurns(angle) + 1]

Sin(angle) == <<0, 1, 0, -1>>[QuarterTurns(angle) + 1]

RECURSIVE Gcd(_, _)
Gcd(a, b) == IF b = 0 THEN a ELSE Gcd(b, a % b)

\* points / np.linalg.norm(points, axis=1) of one point: the numerators and the
\* denominator of the unit vector, in lowest terms
UnitFraction(v) ==
    LET g == Gcd(Gcd(Abs(v[1]), Abs(v[2])), Abs(v[3]))
        u == <<Quot(v[1], g), Quot(v[2], g), Quot(v[3], g)>>
    IN  [num |-> u, den |-> Norm(u)]

\* direction / np.linalg.norm(direction)
Normalised(direction) ==
    LET unit == UnitFraction(direction)
    IN  <<Quot(unit.num[1], unit.den), Quot(unit.num[2], unit.den),
          Quot(unit.num[3], unit.den)>>
\* faulty variant: the sine and the cosine of the angle are exchanged
Rotation_sine_for_cosine(direction, angle, v) ==
    VAdd(VAdd(Scaled(Sin(angle), v), Scaled(Cos(angle), Cross(direction, v))),
         Scaled(Dot(direction, v) * (1 - Sin(angle)), direction))

\* Rotation.from_rotvec(theta * direction).as_dcm() applied to v: the turn of
\* v by the angle about the unit vector direction
Rotation(direction, angle, v) ==
    VAdd(VAdd(Scaled(Cos(angle), v), Scaled(Sin(angle), Cross(direction, v))),
         Scaled(Dot(direction, v) * (1 - Cos(angle)), direction))

RECURSIVE RotatePoints(_, _, _, _)
RotatePoints(points, direction, angle, origin) ==
    IF points = <<>> THEN <<>>
    ELSE <<VAdd(origin, Rotation(direction, angle, VSub(Head(points), origin)))>>
         \o RotatePoints(Tail(points), direction, angle, origin)

\* morph_tool.transform.rotate(section, matrix, origin): the section and its
\* descendants are turned about origin
transform_rotate(m, id, direction, angle, origin) ==
    LET moved == Range(IterDepth(m, id))
    IN  [m EXCEPT !.sections =
            [s \in Ids(m) |->
                IF s \in moved
                THEN [m.sections[s] EXCEPT
                         !.points = RotatePoints(@, direction, angle, origin)]
                ELSE m.sections[s]]]

\* descendant_section.points[1:] - p0 for the sections of section.iter()
RECURSIVE Cloud(_, _, _)
Cloud(m, order, p0) ==
    IF order = <<>> THEN <<>>
    ELSE ShiftPoints(Tail(m.sections[Head(order)].points), Scaled(-1, p0))
         \o Cloud(m, Tail(order), p0)

RECURSIVE ProductOf(_)
ProductOf(ns) == IF ns = <<>> THEN 1 ELSE Head(ns) * ProductOf(Tail(ns))

RECURSIVE SumVectors(_)
SumVectors(vs) == IF vs = <<>> THEN <<0, 0, 0>> ELSE VAdd(Head(vs), SumVectors(Tail(vs)))

\* the first index at which |row[c]| is maximal
RECURSIVE ArgMaxAbs(_, _, _, _)
ArgMaxAbs(rows, c, i, best) ==
    IF i > Len(rows) THEN best
    ELSE ArgMaxAbs(rows, c, i + 1,
                   IF Abs(rows[i][c]) > Abs(rows[best][c]) THEN i ELSE best)

\* PCA(n_components=1).fit(directions).components_[0] for directions whose
\* covariance matrix is diagonal with one largest entry: the axis of that
\* entry, with the sign svd_flip gives it (the direction of largest
\* projection has a positive one); <<0, 0, 0>> for any other cloud, which is
\* off the grid of the model
PrincipalAxis(directions) ==
    LET n == Len(directions)
        den == ProductOf([i \in 1..n |-> directions[i].den])
        units == [i \in 1..n |-> Scaled(Quot(den, directions[i].den), directions[i].num)]
        sum == SumVectors(units)
        centred == [i \in 1..n |-> VSub(Scaled(n, units[i]), sum)]
        cov(a, b) == SumSeq([i \in 1..n |-> centred[i][a] * centred[i][b]])
        axes == {a \in 1..3 : \A b \in 1..3 \ {a} : cov(a, b) = 0 /\ cov(a, a) > cov(b, b)}
    IN  IF cov(1, 2) # 0 \/ cov(1, 3) # 0 \/ cov(2, 3) # 0 \/ axes = {}
        THEN <<0, 0, 0>>
        ELSE LET a == CHOOSE c \in axes : TRUE
                 sign == IF centred[ArgMaxAbs(centred, a, 1, 1)][a] > 0 THEN 1 ELSE -1
             IN  <<IF a = 1 THEN sign ELSE 0,
                   IF a = 2 THEN sign ELSE 0,
                   IF a = 3 THEN sign ELSE 0>>

_principal_direction(m, id) ==
    LET points == Cloud(m, IterDepth(m, id), m.sections[id].points[1])
    IN  PrincipalAxis([i \in 1..Len(points) |-> UnitFraction(points[i])])

Min(a, b) == IF a < b THEN a ELSE b

\* parent.points[-1] - parent.points[-int(min(piecenumber, len(parent.points)))]
ParentDirection(points, piecenumber) ==
    VSub(Last(points), points[Len(points) + 1 - Min(piecenumber, Len(points))])

\* sampled[id]: the angle the normal law gives for section id, in degrees
RECURSIVE _recursive_rotational_jitter(_, _, _, _)
RECURSIVE RotateEach(_, _, _, _)
RotateEach(m, ids, piecenumber, sampled) ==
    IF ids = <<>> THEN m
    ELSE RotateEach(_recursive_rotational_jitter(m, Head(ids), piecenumber, sampled),
                    Tail(ids), piecenumber, sampled)

\* faulty variant: a section is turned before its children are
_recursive_rotational_jitter_parent_first(m, id, piecenumber, sampled) ==
    LET direction ==
            IF m.sections[id].children = <<>>
            THEN ParentDirection(m.sections[m.sections[id].parent].points, piecenumber)
            ELSE _principal_direction(m, id)
        turned == IF m.sections[id].parent = NoSection THEN m
                  ELSE transform_rotate(m, id, Normalised(direction), sampled[id],
                                        m.sections[id].points[1])
    IN  RotateEach(turned, m.sections[id].children, piecenumber, sampled)

_recursive_rotational_jitter(m, id, piecenumber, sampled) ==
    LET children == m.sections[id].children
        rotated == RotateEach(m, children, piecenumber, sampled)
        direction ==
            IF children = <<>>
            THEN ParentDirection(rotated.sections[m.sections[id].parent].points, piecenumber)
            ELSE _principal_direction(rotated, id)
    IN  IF m.sections[id].parent = NoSection THEN rotated
        ELSE transform_rotate(rotated, id, Normalised(direction), sampled[id],
                              rotated.sections[id].points[1])

rotational_jitter(neuron, params, sampled) ==
    RotateEach(neuron, neuron.root_sections, params.numberpoint, sampled)

\* ------------------------------------------------ files of the jitter engine
\* the tree of a file on the grid of the jitter engine
OnGrid(m) ==
    [m EXCEPT !.sections =
        [id \in DOMAIN m.sections |->
            [m.sections[id] EXCEPT !.points =
                [i \in 1..Len(m.sections[id].points) |->
                    Scaled(Grid, m.sections[id].points[i])]]]]

\* the 2-section morphology of the scaling examples
JSimple ==
    Morph(<<0>>,
      << Section("dendrite", NoSection, <<1>>,
                 <<<<0, 0, 0>>, <<0, 5, 0>>>>, <<2, 2>>),
         Section("dendrite", 0, <<>>, <<<<0, 5, 0>>, <<-5, 5, 0>>>>, <<2, 3>>) >>)

\* sections of three points; the root comes back on itself, so that the
\* direction of its end depends on how many of its points are taken
JBent ==
    Morph(<<0>>,
      << Section("axon", NoSection, <<1>>,
                 <<<<0, 0, 0>>, <<0, 8, 0>>, <<0, 5, 0>>>>, <<2, 2, 2>>),
         Section("axon", 0, <<>>,
                 <<<<0, 5, 0>>, <<3, 5, 0>>, <<3, 9, 0>>>>, <<2, 1, 1>>) >>)

\* a root, a middle section and two terminal sections whose directions
\* from the start of the middle section mirror each other
JTree ==
    Morph(<<0>>,
      << Section("dendrite", NoSection, <<1>>,
                 <<<<0, 0, 0>>, <<0, 5, 0>>>>, <<4, 4>>),
         Section("dendrite", 0, <<2, 3>>,
                 <<<<0, 5, 0>>, <<0, 10, 0>>>>, <<4, 3>>),
         Section("dendrite", 1, <<>>, <<<<0, 10, 0>>, <<5, 17, 0>>>>, <<3, 1>>),
         Section("dendrite", 1, <<>>, <<<<0, 10, 0>>, <<-5, 17, 0>>>>, <<3, 1>>) >>)

\* one root section that starts away from the origin, with three diameters
JOffset ==
    Morph(<<0>>,
      << Section("axon", NoSection, <<>>,
                 <<<<2, 3, 0>>, <<2, 6, 0>>, <<4, 6, 1>>>>, <<3, 2, 1>>) >>)

JitterFile(stem, suffix, morphology) ==
    [stem |-> stem, suffix |-> suffix, morphology |-> morphology]

JitterLibrary ==
    { JitterFile("simple", ".asc", JSimple),
      JitterFile("bent", ".swc", JBent),
      JitterFile("tree", ".swc", JTree),
      JitterFile("offset", ".asc", JOffset) }

\* Morphology(filename) in the jitter engine
JitterLoad(file) == OnGrid(file.morphology)

\* the parameters the scaling pass is given
ScalingChoices ==
    { DefaultScaling,
      ScaleParameters(2 * Percent, 0, AxisNone),
      ScaleParameters(-2 * Percent, 0, AxisNone),
      ScaleParameters(Percent \div 2, 0, AxisNone),
      ScaleParameters(2 * Percent, 0, 0),
      ScaleParameters(2 * Percent, 0, 1),
      ScaleParameters(Percent, Percent \div 2, AxisNone) }

\* what the normal law gives: the mean when std is 0, else one value far
\* below the mean or one above it
Samples(mean, std) == IF std = 0 THEN {mean} ELSE {mean - 6 * std, mean + std}

\* the factors drawn while a tree is scaled: for every section one per
\* point (the null vector included) and one for the section
ScalingSamples(m, segment_scaling, section_scaling) ==
    [segments : {seg \in [Ids(m) -> UNION {[1..n -> Samples(segment_scaling.mean,
                                                           segment_scaling.std)] :
                                           n \in 2..3}] :
                    \A id \in Ids(m) : Len(seg[id]) = Len(m.sections[id].points)},
     section : [Ids(m) -> Samples(section_scaling.mean, section_scaling.std)]]

Sampled(m, drawn) ==
    [id \in Ids(m) |-> [segments |-> drawn.segments[id], section |-> drawn.section[id]]]

\* the parameters the rotational pass is given
RotationChoices ==
    {RotationParameters(mean, std, n) : mean \in {0, 90, 360}, std \in {0, 90}, n \in {2, 5}}

\* a sampled angle turns the terminal sections of a tree one by one, and
\* the principal direction of a middle section is then no axis of the
\* frame: the trees with a middle section take std_angle = 0
OnAxes(m, params) ==
    params.std_angle = 0
    \/ \A id \in Ids(m) : m.sections[id].parent = NoSection \/ m.sections[id].children = <<>>

\* the angles drawn while a tree is turned, one for every section
AngleSamples(m, params) == [Ids(m) -> Samples(params.mean_angle, params.std_angle)]

\* the options of the clone_army command, in percent and in degrees
Options(mean_angle, std_angle, mean_segment, std_segment, mean_section, std_section) ==
    [mean_angle |-> mean_angle, std_angle |-> std_angle,
     mean_segment_scaling |-> mean_segment, std_segment_scaling |-> std_segment,
     mean_section_scaling |-> mean_section, std_section_scaling |-> std_section,
     numberpoint |-> 5]

OptionChoices ==
    { Options(0, 0, 0, 0, 0, 0),
      Options(0, 0, 100, 0, 0, 0),
      Options(0, 0, 100, 0, 100, 0),
      Options(90, 0, 200, 0, 100, 0),
      Options(0, 0, 100, 0, 100, 50) }

\* ------------------------------------------------------------------- state
VARIABLES
    file_dir,       \* run: os.listdir(file_dir)
    heights,        \* run: the heights argument, <<>> when not passed
    n_steps,        \* run: the n_steps argument, 0 when not passed
    pc,             \* the position of the program
    f,              \* run: how many files of file_dir the loop has taken
    errors,         \* run: the list of (filename, message)
    printed,        \* run: the lines printed
    written,        \* the output directory: file name -> what was written
    xml_tree,       \* shrink_all_heights: the parsed annotation file
    rules,          \* shrink_all_heights: the placement rules read from it
    upward,         \* shrink_all_heights
    y_start_cut,    \* shrink_all_heights
    y_start_graft,  \* shrink_all_heights
    hs,             \* shrink_all_heights: the heights the loop goes through
    h,              \* shrink_all_heights: how many heights the loop has taken
    height_added,   \* shrink_all_heights
    original,       \* cut_and_graft
    new_neuron,     \* cut_and_graft
    start_cut,      \* cut_and_graft: id of a section of original
    start_graft,    \* cut_and_graft: id of a section of original
    extra_section,  \* cut_and_graft: id of a section of new_neuron
    y_diff,         \* shrink_all_heights: the displacement cut_and_graft returned
    exc,            \* the exception in flight
    call,           \* the function called on its own, "" before the call
    arg_section,    \* cut_section_at_plane_coord: section
    arg_y_plane,    \* cut_section_at_plane_coord: y_plane
    arg_upward,     \* cut_section_at_plane_coord: upward
    arg_cut_before, \* cut_section_at_plane_coord: cut_before
    arg_rules,      \* cut_and_graft_coordinate: rules
    result,         \* what the call returned or left in its argument
    morphology,     \* clone_army, create_clones: the file to jitter
    options,        \* clone_army: the options of the command line
    nclones,        \* create_clones
    rotation_params,   \* create_clones, rotational_jitter
    segment_scaling,   \* create_clones, scale_morphology
    section_scaling,   \* create_clones, scale_morphology
    clone,          \* create_clones: i, how many clones are written
    neuron,         \* the tree the jitter engine works on
    angles,         \* what the normal law gave during the last rotational pass
    scalings,       \* what the normal law gave during the last scaling pass
    output_paths,   \* create_clones: the names returned
    output_folder   \* create_clones: file name -> the tree written

run_vars == <<file_dir, heights, n_steps, f, errors, printed, written>>

shrink_vars == <<xml_tree, rules, upward, y_start_cut, y_start_graft, hs, h, height_added>>

graft_vars == <<original, new_neuron, start_cut, start_graft, extra_section, y_diff>>

call_vars == <<call, arg_section, arg_y_plane, arg_upward, arg_cut_before, arg_rules, result>>

jitter_vars ==
    <<morphology, options, nclones, rotation_params, segment_scaling, section_scaling,
      clone, neuron, angles, scalings, output_paths, output_folder>>

vars == <<run_vars, shrink_vars, graft_vars, pc, exc, call_vars, jitter_vars>>

NoMorphology == [root_sections |-> <<>>, sections |-> <<>>, counter |-> 0]

\* faulty variant: the tree the previous call of cut_and_graft worked on is
\* taken again instead of being read from the file
Load_reused(name) == IF original # NoMorphology THEN original ELSE Lookup(name).morphology

\* faulty variant: the tree the previous height produced is taken again
\* instead of the file's
Load_previous_result(name) ==
    IF new_neuron # NoMorphology THEN new_neuron ELSE Lookup(name).morphology

\* Morphology(filename): every load gives a fresh copy of the file's tree
Load(name) == Lookup(name).morphology

NoException == [kind |-> "", msg |-> ""]

Raise(kind, msg) == [kind |-> kind, msg |-> msg]

\* the file the loop of run is at
CurrentFile == Lookup(file_dir[f])

\* the name write_neuron_and_rule is given: the stem and the height
OutputName(stem, height) == <<stem, height>>

NoSectionValue == Section("", NoSection, <<>>, <<>>, <<>>)

\* no function is called on its own
NoCall ==
    /\ call = ""
    /\ arg_section = NoSectionValue
    /\ arg_y_plane = 0
    /\ arg_upward = FALSE
    /\ arg_cut_before = FALSE
    /\ arg_rules = <<>>
    /\ result = <<>>

\* the locals of shrink_all_heights and cut_and_graft before they run
NoLocals ==
    /\ f = 0
    /\ errors = <<>>
    /\ printed = <<>>
    /\ written = <<>>
    /\ xml_tree = <<>>
    /\ rules = <<>>
    /\ upward = FALSE
    /\ y_start_cut = 0
    /\ y_start_graft = 0
    /\ hs = <<>>
    /\ h = 0
    /\ height_added = 0
    /\ original = NoMorphology
    /\ new_neuron = NoMorphology
    /\ start_cut = NoSection
    /\ start_graft = NoSection
    /\ extra_section = NoSection
    /\ y_diff = 0
    /\ exc = NoException

\* the jitter engine has not been called
NoJitter ==
    /\ morphology = <<>>
    /\ options = <<>>
    /\ nclones = 0
    /\ rotation_params = <<>>
    /\ segment_scaling = <<>>
    /\ section_scaling = <<>>
    /\ clone = 0
    /\ neuron = NoMorphology
    /\ angles = <<>>
    /\ scalings = <<>>
    /\ output_paths = <<>>
    /\ output_folder = <<>>

Init ==
    /\ file_dir \in Listings
    /\ \/ heights \in HeightLists /\ n_steps = MaxSteps
       \/ heights = <<>> /\ n_steps \in 0..MaxSteps
    /\ pc = "run"
    /\ NoLocals
    /\ NoCall
    /\ NoJitter

\* abs(rules['axon'][y[not upward]] - rules['dendrite'][y[upward]])
HeightRange(r, up) ==
    IF up THEN Abs(r["axon"].y_min - r["dendrite"].y_max)
          ELSE Abs(r["axon"].y_max - r["dendrite"].y_min)

\* run takes the next file and shrink_all_heights runs up to its loop
ShrinkAllHeights ==
    /\ UNCHANGED <<call_vars, jitter_vars>>
    /\ pc = "run"
    /\ f < Len(file_dir)
    /\ f' = f + 1
    /\ LET tree == ParseXml(file_dir[f + 1])
           read == read_placement_rules(tree)
           coord == cut_and_graft_coordinate(read)
       IN  /\ xml_tree' = tree
           /\ rules' = read
           /\ h' = 0
           /\ height_added' = 0
           /\ IF "axon" \notin DOMAIN read
              THEN /\ exc' = Raise("NoAxonAnnotation", "No axon annotation")
                   /\ pc' = "raised"
                   /\ UNCHANGED <<upward, y_start_cut, y_start_graft, hs>>
              ELSE IF "dendrite" \notin DOMAIN read
              THEN /\ exc' = Raise("KeyError", "dendrite")
                   /\ pc' = "raised"
                   /\ UNCHANGED <<upward, y_start_cut, y_start_graft, hs>>
              ELSE /\ upward' = coord.upward
                   /\ y_start_cut' = coord.y_start_cut
                   /\ y_start_graft' = coord.y_start_graft
                   /\ IF heights = <<>> /\ n_steps = 0
                      THEN /\ exc' = Raise("Exception",
                                "'heights' and 'n_steps' arguments can not be None at the same time")
                           /\ pc' = "raised"
                           /\ hs' = <<>>
                      ELSE /\ hs' = IF heights = <<>>
                                    THEN linspace(HeightRange(read, coord.upward), n_steps)
                                    ELSE heights
                           /\ pc' = "heights"
                           /\ exc' = NoException
    /\ UNCHANGED <<file_dir, heights, n_steps, errors, printed, written, graft_vars>>

\* the loop takes the next height and cut_and_graft loads the file twice
LoadCopies ==
    /\ UNCHANGED <<call_vars, jitter_vars>>
    /\ pc = "heights"
    /\ h < Len(hs)
    /\ h' = h + 1
    /\ height_added' = IF upward THEN hs[h + 1] ELSE hs[h + 1] * (-1)
    /\ original' = Load(file_dir[f])
    /\ new_neuron' = Load(file_dir[f])
    /\ start_cut' = NoSection
    /\ start_graft' = NoSection
    /\ extra_section' = NoSection
    /\ pc' = "loaded"
    /\ UNCHANGED <<run_vars, xml_tree, rules, upward, y_start_cut, y_start_graft,
                   hs, y_diff, exc>>

GetStartCutStartGraftSections ==
    /\ UNCHANGED <<call_vars, jitter_vars>>
    /\ pc = "loaded"
    /\ LET found == get_start_cut_start_graft_sections(
                        original, upward, y_start_cut, y_start_graft)
       IN  IF found.exc # ""
           THEN /\ exc' = Raise(found.exc, found.msg)
                /\ pc' = "raised"
                /\ UNCHANGED <<start_cut, start_graft>>
           ELSE /\ start_cut' = found.start_cut
                /\ start_graft' = found.start_graft
                /\ pc' = "located"
                /\ UNCHANGED exc
    /\ UNCHANGED <<run_vars, shrink_vars, original, new_neuron, extra_section, y_diff>>

CutBranch ==
    /\ UNCHANGED <<call_vars, jitter_vars>>
    /\ pc = "located"
    /\ new_neuron' = cut_branch(new_neuron, upward, start_cut, y_start_cut)
    /\ pc' = "cut"
    /\ UNCHANGED <<run_vars, shrink_vars, original, start_cut, start_graft,
                   extra_section, y_diff, exc>>

AddVerticalSegment ==
    /\ UNCHANGED <<call_vars, jitter_vars>>
    /\ pc = "cut"
    /\ LET added == add_vertical_segment(new_neuron, start_cut, height_added)
       IN  /\ new_neuron' = added.mut
           /\ extra_section' = added.section
    /\ pc' = "bridged"
    /\ UNCHANGED <<run_vars, shrink_vars, original, start_cut, start_graft, y_diff, exc>>

\* graft_branch, and cut_and_graft returns (new_neuron, y_min_diff)
GraftBranch ==
    /\ UNCHANGED <<call_vars, jitter_vars>>
    /\ pc = "bridged"
    /\ LET grafted == graft_branch(new_neuron, original, upward,
                                   extra_section, start_graft, y_start_graft)
       IN  /\ new_neuron' = grafted.new
           /\ original' = grafted.original
           /\ y_diff' = grafted.result
    /\ pc' = "grafted"
    /\ UNCHANGED <<run_vars, shrink_vars, start_cut, start_graft, extra_section, exc>>

\* faulty variant: the shift is added to the bounds the tree holds, which
\* the previous height has already shifted
write_neuron_and_rule_accumulating(tree, r, diff) ==
    update_rule(tree, "axon",
                [y_min |-> ToString(ParseNumber(tree["axon"].y_min) + diff),
                 y_max |-> ToString(ParseNumber(tree["axon"].y_max) + diff)])

\* the annotation write_neuron_and_rule leaves in the tree
write_neuron_and_rule(tree, r, diff) ==
    update_rule(tree, "axon",
                [y_min |-> ToString(r["axon"].y_min + diff),
                 y_max |-> ToString(r["axon"].y_max + diff)])

WriteNeuronAndRule ==
    /\ UNCHANGED <<call_vars, jitter_vars>>
    /\ pc = "grafted"
    /\ xml_tree' = write_neuron_and_rule(xml_tree, rules, y_diff)
    /\ written' = (OutputName(CurrentFile.stem, height_added) :>
                        [h5 |-> new_neuron, xml |-> xml_tree']) @@ written
    /\ pc' = "heights"
    /\ UNCHANGED <<file_dir, heights, n_steps, f, errors, printed, rules, upward,
                   y_start_cut, y_start_graft, hs, h, height_added, graft_vars, exc>>

\* the loop over the heights is over: shrink_all_heights returns
Return ==
    /\ UNCHANGED <<call_vars, jitter_vars>>
    /\ pc = "heights"
    /\ h = Len(hs)
    /\ pc' = "run"
    /\ UNCHANGED <<run_vars, shrink_vars, graft_vars, exc>>

\* the exceptions the except clause of run names
Caught == {"NoSectionToCut", "NoAxon", "NoAxonAnnotation"}

Except ==
    /\ UNCHANGED <<call_vars, jitter_vars>>
    /\ pc = "raised"
    /\ exc.kind \in Caught
    /\ errors' = Append(errors, <<file_dir[f], exc.msg>>)
    /\ exc' = NoException
    /\ pc' = "run"
    /\ UNCHANGED <<file_dir, heights, n_steps, f, printed, written, shrink_vars, graft_vars>>

\* any other exception leaves run
Propagate ==
    /\ UNCHANGED <<call_vars, jitter_vars>>
    /\ pc = "raised"
    /\ exc.kind \notin Caught
    /\ pc' = "crashed"
    /\ UNCHANGED <<run_vars, shrink_vars, graft_vars, exc>>

\* after the last file: print 'Done' and the files that failed
Report ==
    /\ UNCHANGED <<call_vars, jitter_vars>>
    /\ pc = "run"
    /\ f = Len(file_dir)
    /\ printed' = <<"Done">> \o errors
    /\ pc' = "done"
    /\ UNCHANGED <<file_dir, heights, n_steps, f, errors, written, shrink_vars,
                   graft_vars, exc>>

Next ==
    \/ ShrinkAllHeights
    \/ LoadCopies
    \/ GetStartCutStartGraftSections
    \/ CutBranch
    \/ AddVerticalSegment
    \/ GraftBranch
    \/ WriteNeuronAndRule
    \/ Return
    \/ Except
    \/ Propagate
    \/ Report

Spec == Init /\ [][Next]_vars

\* --------------------------------------------- the functions called on their own
\* sections on a grid on which every interpolation at a plane of PlaneCoords
\* is exact
GridX == {0, 24}

GridY == {-24, 0, 24}

PlaneCoords == {-12, 0, 12, 30}

GridPoints == {<<x, y, 0>> : x \in GridX, y \in GridY}

GridDiameters(n) == {[i \in 1..n |-> 24], [i \in 1..n |-> 24 * i]}

GridSections ==
    UNION {{Section("axon", NoSection, <<>>, p, d) :
                p \in [1..n -> GridPoints], d \in GridDiameters(n)} : n \in 2..MaxPoints}

\* the axon section and the plane of the end-to-end example of the plane cut,
\* in units of 1/8
ExampleSection ==
    Section("axon", NoSection, <<>>,
            <<<<0, 0, 8>>, <<0, -40, 0>>, <<0, -80, 4>>>>, <<8, 8, 16>>)

ExamplePlane == -20

CutInputs == (GridSections \X PlaneCoords) \cup {<<ExampleSection, ExamplePlane>>}

AnnotationBounds == {-20, -10, 0, 10, 20}

Intervals ==
    {i \in [y_min : AnnotationBounds, y_max : AnnotationBounds] : i.y_min < i.y_max}

RuleSets == {("dendrite" :> d) @@ ("axon" :> a) : d \in Intervals, a \in Intervals}

CallInit ==
    /\ pc = "call"
    /\ file_dir = <<>>
    /\ heights = <<>>
    /\ n_steps = 0
    /\ NoLocals
    /\ NoCall
    /\ NoJitter

CallCutSectionAtPlaneCoord ==
    /\ pc = "call"
    /\ call = ""
    /\ \E input \in CutInputs, up \in BOOLEAN, before \in BOOLEAN :
          /\ arg_section' = input[1]
          /\ arg_y_plane' = input[2]
          /\ arg_upward' = up
          /\ arg_cut_before' = before
          /\ result' = IF NoCrossing(input[1], input[2], up)
                       THEN [raised |-> "IndexError", section |-> input[1]]
                       ELSE [raised |-> "",
                             section |-> cut_section_at_plane_coord(
                                             input[1], input[2], up, before)]
    /\ call' = "cut_section_at_plane_coord"
    /\ UNCHANGED <<run_vars, shrink_vars, graft_vars, pc, exc, arg_rules, jitter_vars>>

CallCutAndGraftCoordinate ==
    /\ pc = "call"
    /\ call = ""
    /\ \E r \in RuleSets :
          /\ arg_rules' = r
          /\ result' = cut_and_graft_coordinate(r)
    /\ call' = "cut_and_graft_coordinate"
    /\ UNCHANGED <<run_vars, shrink_vars, graft_vars, pc, exc, jitter_vars,
                   arg_section, arg_y_plane, arg_upward, arg_cut_before>>

CallNext ==
    \/ CallCutSectionAtPlaneCoord
    \/ CallCutAndGraftCoordinate

CallSpec == CallInit /\ [][CallNext]_vars

\* ------------------------------------------------------- the jitter engine
\* the name of clone i: '{}_clone_{}{}'.format(path.stem, i, path.suffix)
CloneName(file, i) == <<file.stem, "clone", i, file.suffix>>

JitterInit ==
    /\ pc = "jitter"
    /\ file_dir = <<>>
    /\ heights = <<>>
    /\ n_steps = 0
    /\ NoLocals
    /\ NoCall
    /\ NoJitter

JitterFrame == UNCHANGED <<run_vars, shrink_vars, graft_vars, exc, call_vars>>

\* scale_morphology called on a tree just loaded
CallScaleMorphology ==
    /\ pc = "jitter"
    /\ \E file \in JitterLibrary, segment \in ScalingChoices, section \in ScalingChoices :
       \E drawn \in ScalingSamples(file.morphology, segment, section) :
          /\ morphology' = file
          /\ segment_scaling' = segment
          /\ section_scaling' = section
          /\ scalings' = Sampled(file.morphology, drawn)
          /\ neuron' = scale_morphology(JitterLoad(file), segment, section, scalings')
    /\ pc' = "scaled"
    /\ UNCHANGED <<options, nclones, rotation_params, clone, angles, output_paths,
                   output_folder>>
    /\ JitterFrame

\* rotational_jitter called on a tree just loaded
CallRotationalJitter ==
    /\ pc = "jitter"
    /\ \E file \in JitterLibrary, params \in RotationChoices :
          /\ OnAxes(file.morphology, params)
          /\ \E drawn \in AngleSamples(file.morphology, params) :
                /\ morphology' = file
                /\ rotation_params' = params
                /\ angles' = drawn
                /\ neuron' = rotational_jitter(JitterLoad(file), params, drawn)
    /\ pc' = "rotated"
    /\ UNCHANGED <<options, nclones, segment_scaling, section_scaling, clone, scalings,
                   output_paths, output_folder>>
    /\ JitterFrame

\* the clone_army command up to its call of create_clones: a mean or a
\* standard deviation given in percent is divided by 100
CloneArmy ==
    /\ pc = "jitter"
    /\ \E file \in JitterLibrary, given \in OptionChoices, n \in 0..MaxClones :
          /\ OnAxes(file.morphology, given)
          /\ morphology' = file
          /\ options' = given
          /\ nclones' = n
          /\ segment_scaling' = ScaleParameters(given.mean_segment_scaling,
                                                given.std_segment_scaling, AxisNone)
          /\ section_scaling' = ScaleParameters(given.mean_section_scaling,
                                                given.std_section_scaling, AxisNone)
          /\ rotation_params' = RotationParameters(given.mean_angle, given.std_angle,
                                                   given.numberpoint)
    /\ pc' = "create_clones"
    /\ UNCHANGED <<clone, neuron, angles, scalings, output_paths, output_folder>>
    /\ JitterFrame

\* create_clones called with parameter objects
CreateClones ==
    /\ pc = "jitter"
    /\ \E file \in JitterLibrary, n \in 0..MaxClones,
          params \in {RotationParameters(0, 0, 5), RotationParameters(90, 0, 5),
                      RotationParameters(0, 90, 5)},
          segment \in {DefaultScaling, ScaleParameters(2 * Percent, 0, AxisNone)},
          section \in {DefaultScaling, ScaleParameters(Percent, Percent \div 2, AxisNone)} :
          /\ OnAxes(file.morphology, params)
          /\ morphology' = file
          /\ nclones' = n
          /\ rotation_params' = params
          /\ segment_scaling' = segment
          /\ section_scaling' = section
    /\ pc' = "create_clones"
    /\ UNCHANGED <<options, clone, neuron, angles, scalings, output_paths, output_folder>>
    /\ JitterFrame

\* faulty variant: the tree of the previous clone is taken again
Morphology_kept(file) == IF clone > 0 THEN neuron ELSE JitterLoad(file)

\* neuron = Morphology(filename)
Morphology(file) == JitterLoad(file)

CloneLoad ==
    /\ pc = "create_clones"
    /\ clone < nclones
    /\ neuron' = Morphology(morphology)
    /\ pc' = "clone_loaded"
    /\ UNCHANGED <<morphology, options, nclones, rotation_params, segment_scaling,
                   section_scaling, clone, angles, scalings, output_paths, output_folder>>
    /\ JitterFrame

CloneRotationalJitter ==
    /\ pc = "clone_loaded"
    /\ \E drawn \in AngleSamples(neuron, rotation_params) :
          /\ angles' = drawn
          /\ neuron' = rotational_jitter(neuron, rotation_params, drawn)
    /\ pc' = "clone_rotated"
    /\ UNCHANGED <<morphology, options, nclones, rotation_params, segment_scaling,
                   section_scaling, clone, scalings, output_paths, output_folder>>
    /\ JitterFrame

CloneScaleMorphology ==
    /\ pc = "clone_rotated"
    /\ \E drawn \in ScalingSamples(neuron, segment_scaling, section_scaling) :
          /\ scalings' = Sampled(neuron, drawn)
          /\ neuron' = scale_morphology(neuron, segment_scaling, section_scaling, scalings')
    /\ pc' = "clone_scaled"
    /\ UNCHANGED <<morphology, options, nclones, rotation_params, segment_scaling,
                   section_scaling, clone, angles, output_paths, output_folder>>
    /\ JitterFrame

\* neuron.write(os.path.join(output_folder, name)); output_paths.append(name)
CloneWrite ==
    /\ pc = "clone_scaled"
    /\ output_folder' = (CloneName(morphology, clone) :> neuron) @@ output_folder
    /\ output_paths' = Append(output_paths, CloneName(morphology, clone))
    /\ clone' = clone + 1
    /\ pc' = "create_clones"
    /\ UNCHANGED <<morphology, options, nclones, rotation_params, segment_scaling,
                   section_scaling, neuron, angles, scalings>>
    /\ JitterFrame

\* return output_paths
CloneReturn ==
    /\ pc = "create_clones"
    /\ clone = nclones
    /\ pc' = "cloned"
    /\ UNCHANGED jitter_vars
    /\ JitterFrame

JitterNext ==
    \/ CallScaleMorphology
    \/ CallRotationalJitter
    \/ CloneArmy
    \/ CreateClones
    \/ CloneLoad
    \/ CloneRotationalJitter
    \/ CloneScaleMorphology
    \/ CloneWrite
    \/ CloneReturn

JitterSpec == JitterInit /\ [][JitterNext]_vars


\* every interpolation the model makes divides exactly
ExactBlend(section, y_plane, up) ==
    LET k == CutIndex(section.points, y_plane, up)
        p1 == section.points[k]
        p2 == section.points[k + 1]
        num == y_plane - p1[Y_INDEX]
        den == p2[Y_INDEX] - p1[Y_INDEX]
        exact(a, b) == Quot(num * (b - a), den) * den = num * (b - a)
    IN  k > 0 => /\ \A c \in 1..3 : exact(p1[c], p2[c])
                 /\ exact(section.diameters[k], section.diameters[k + 1])

ModelArithmeticExact ==
    /\ call = "cut_section_at_plane_coord" /\ result.raised = ""
          => ExactBlend(arg_section, arg_y_plane, arg_upward)
    /\ pc = "located"
          => /\ ExactBlend(new_neuron.sections[start_cut], y_start_cut, upward)
             /\ ExactBlend(original.sections[start_graft], y_start_graft, upward)

\* the trees the jitter engine is given, and those the rotational pass
\* leaves, have their points on the grid on which two factors divide exactly
JitterArithmeticExact ==
    pc \in {"rotated", "clone_loaded", "clone_rotated"}
        => \A id \in Ids(neuron) :
           \A i \in 1..Len(neuron.sections[id].points) :
           \A c \in 1..3 :
              neuron.sections[id].points[i][c] % Grid = 0

\* ------------------------------------------------------------ properties
\* the tree of the file the loop of run is at, as it is loaded
Source == Load(file_dir[f])

\* cut_and_graft is running for the current height
InCutAndGraft == pc \in {"loaded", "located", "cut", "bridged", "grafted"}

\* C1: get_start_cut_start_graft_sections, and so cut_and_graft, goes on only
\* with exactly one axonal root section; with none it raises NoAxon, with two
\* or more TooManyAxons, and both copies are then still as loaded.
C1_ExactlyOneAxon ==
    /\ pc \in {"located", "cut", "bridged", "grafted"}
          => Len(AxonRoots(Source)) = 1
    /\ (pc = "raised" /\ h > 0)
          => /\ (exc.kind = "NoAxon") = (Len(AxonRoots(Source)) = 0)
             /\ (exc.kind = "TooManyAxons") = (Len(AxonRoots(Source)) > 1)
             /\ exc.kind \in {"NoAxon", "TooManyAxons"}
                   => original = Source /\ new_neuron = Source

C1_Witness ==
    /\ pc = "raised"
    /\ exc.kind = "TooManyAxons"
    /\ Len(AxonRoots(Source)) = 2

\* C2: in run, each of NoAxon, TooManyAxons, NoSectionToCut and
\* NoAxonAnnotation raised for one file is caught and recorded as
\* (filename, message), the remaining files are still processed and the
\* failures are reported after the last file.
NamedFailures == {"NoAxon", "TooManyAxons", "NoSectionToCut", "NoAxonAnnotation"}

C2_NamedFailuresCaught ==
    /\ pc = "crashed" => exc.kind \notin NamedFailures
    /\ (pc = "raised" /\ exc.kind \in NamedFailures) => exc.kind \in Caught
    /\ pc = "done" => /\ f = Len(file_dir)
                      /\ printed = <<"Done">> \o errors

\* first point of every non-root section = last point of its parent
Continuous(m) ==
    \A id \in Ids(m) :
        m.sections[id].parent # NoSection
            => /\ m.sections[id].parent \in Ids(m)
               /\ m.sections[id].points[1] = Last(m.sections[m.sections[id].parent].points)

\* C3: the morphology cut_and_graft returns for a continuous source tree is
\* continuous: every non-root section starts at its parent's last point,
\* whether or not a plane cut was a no-op.
C3_TreeContinuity ==
    (pc = "grafted" /\ Continuous(Source)) => Continuous(new_neuron)

C3_Witness ==
    /\ pc = "grafted"
    /\ Continuous(Source)
    /\ CutIndex(Source.sections[start_cut].points, y_start_cut, upward) > 0
    /\ CutIndex(Source.sections[start_graft].points, y_start_graft, upward) = 0
    /\ new_neuron.sections[Last(new_neuron.sections[extra_section].children)].children # <<>>

\* C4 as claimed: the original copy is, when cut_and_graft returns, as it was
\* right after loading.
C4_OriginalPristine == InCutAndGraft => original = Source

Subtree(m, id) == Range(IterDepth(m, id))

\* C4: cut_and_graft leaves the original copy as loaded until graft_branch;
\* graft_branch changes in it only the points and diameters of start_graft
\* and the points of its descendants: every other section keeps its points
\* and diameters and every section its type, parent and children.
C4_OriginalOutsideGraft ==
    /\ pc \in {"loaded", "located", "cut", "bridged"} => original = Source
    /\ pc = "grafted"
          => /\ Ids(original) = Ids(Source)
             /\ original.root_sections = Source.root_sections
             /\ \A id \in Ids(Source) :
                   /\ original.sections[id].type = Source.sections[id].type
                   /\ original.sections[id].parent = Source.sections[id].parent
                   /\ original.sections[id].children = Source.sections[id].children
                   /\ id \notin Subtree(Source, start_graft)
                         => original.sections[id] = Source.sections[id]
                   /\ (id \in Subtree(Source, start_graft) /\ id # start_graft)
                         => original.sections[id].diameters = Source.sections[id].diameters

C4_Witness ==
    /\ pc = "grafted"
    /\ original # Source
    /\ Subtree(Source, start_graft) # Ids(Source)

\* the positions of a root-to-anchor walk that satisfy the start_cut
\* condition, and those after the first of them that satisfy start_graft's
CutPositions(walk) ==
    {i \in 1..Len(walk) :
        Crosses(Source.sections[walk[i]].points, y_start_cut, upward)}

GraftPositions(walk) ==
    {j \in 1..Len(walk) :
        /\ \E i \in 1..(j - 1) :
              Crosses(Source.sections[walk[i]].points, y_start_cut, upward)
        /\ Crosses(Source.sections[walk[j]].points, y_start_graft, upward)}

\* C5: with no section of the walk satisfying the start_cut condition the
\* search raises NoSectionToCut 'No section to cut from'; with a start_cut but
\* no later section satisfying the start_graft condition it raises
\* NoSectionToCut 'No section to graft from'; otherwise it raises neither.
C5_NoSectionToCut ==
    (h > 0 /\ pc \in {"raised", "located"} /\ Len(AxonRoots(Source)) = 1)
        => \A walk \in {MainBranch(Source)} :
              /\ CutPositions(walk) = {}
                    => pc = "raised"
                       /\ exc = Raise("NoSectionToCut", "No section to cut from")
              /\ (CutPositions(walk) # {} /\ GraftPositions(walk) = {})
                    => pc = "raised"
                       /\ exc = Raise("NoSectionToCut", "No section to graft from")
              /\ (CutPositions(walk) # {} /\ GraftPositions(walk) # {})
                    => pc = "located" /\ exc = NoException

C5_Witness ==
    /\ pc = "raised"
    /\ exc = Raise("NoSectionToCut", "No section to graft from")
    /\ \E walk \in {MainBranch(Source)} :
          /\ Crosses(Source.sections[Last(walk)].points, y_start_cut, upward)
          /\ Crosses(Source.sections[Last(walk)].points, y_start_graft, upward)

\* the call of the end-to-end example of the plane cut
ExampleCall ==
    /\ call = "cut_section_at_plane_coord"
    /\ arg_section = ExampleSection
    /\ arg_y_plane = ExamplePlane
    /\ ~arg_upward
    /\ ~arg_cut_before

\* C6 as claimed: the example yields [[0,0,1],[0,-2.5,0.375]] with diameters
\* [1,1.625] (in units of 1/8).
C6_ExampleAsClaimed ==
    ExampleCall
        => /\ result.section.points = <<<<0, 0, 8>>, <<0, -20, 3>>>>
           /\ result.section.diameters = <<8, 13>>

\* C6: cutting [[0,0,1],[0,-5,0],[0,-10,0.5]] with diameters [1,1,2] at
\* y = -2.5, downward, cut_before false, yields the two points
\* [[0,0,1],[0,-2.5,0.5]] with diameters [1,1]: position and diameter are
\* blended at the fraction 0.5 between the two points bracketing the plane.
C6_Example ==
    ExampleCall
        => /\ result.raised = ""
           /\ result.section.points = <<<<0, 0, 8>>, <<0, -20, 4>>>>
           /\ result.section.diameters = <<8, 8>>

C6_Witness == ExampleCall /\ Len(result.section.points) = 2

\* the crossing index of the call
ArgCutIndex == CutIndex(arg_section.points, arg_y_plane, arg_upward)

\* the points of the call's section before position n are kept, in order,
\* and lie on the side of the plane not yet crossed
RetainedBefore(n) ==
    /\ Len(result.section.points) = n
    /\ Len(result.section.diameters) = n
    /\ \A i \in 1..(n - 1) :
          /\ result.section.points[i] = arg_section.points[i]
          /\ result.section.diameters[i] = arg_section.diameters[i]
          /\ (arg_section.points[i][Y_INDEX] > arg_y_plane) # arg_upward

\* C7 as claimed: after every call with cut_before false the last point is
\* on the plane and the other points are the original ones before the plane.
C7_LastPointOnPlaneAlways ==
    (call = "cut_section_at_plane_coord" /\ ~arg_cut_before /\ result.raised = "")
        => /\ Last(result.section.points)[Y_INDEX] = arg_y_plane
           /\ RetainedBefore(Len(result.section.points))

\* C7: after a call with cut_before false and a crossing index greater than
\* 0, the last point has Y equal to the plane coordinate and every other
\* retained point is a point of the original section on the side of the
\* plane not yet crossed, in the original order; with crossing index 0 the
\* section is left as it was.
C7_LastPointOnPlane ==
    (call = "cut_section_at_plane_coord" /\ ~arg_cut_before /\ result.raised = "")
        => /\ ArgCutIndex > 0
                 => /\ Last(result.section.points)[Y_INDEX] = arg_y_plane
                    /\ RetainedBefore(ArgCutIndex + 1)
           /\ ArgCutIndex = 0 => result.section = arg_section

C7_Witness ==
    /\ call = "cut_section_at_plane_coord"
    /\ ~arg_cut_before
    /\ ArgCutIndex = 2
    /\ Len(result.section.points) = 3

Translated(points, t) == [i \in 1..Len(points) |-> VAdd(points[i], t)]

\* C8: graft_branch trims to_be_grafted at y_start_graft with cut_before
\* true, moves it and all its descendants by the one vector (root's last
\* point minus the trimmed section's first point), changes no diameter in
\* doing so, appends the moved subtree as a child of root and returns the Y
\* component of the vector.
C8_GraftBranch ==
    [][pc = "bridged" =>
        LET trimmed == cut_section_at_plane_coord(
                           original.sections[start_graft], y_start_graft, upward, TRUE)
            t == VSub(Last(new_neuron.sections[extra_section].points), trimmed.points[1])
            from == IterDepth(original, start_graft)
            graft == Last(new_neuron'.sections[extra_section].children)
            to == IterDepth(new_neuron', graft)
            before(i) == IF i = 1 THEN trimmed ELSE original.sections[from[i]]
        IN  /\ y_diff' = t[Y_INDEX]
            /\ new_neuron'.sections[extra_section].children =
                   Append(new_neuron.sections[extra_section].children, graft)
            /\ new_neuron'.sections[graft].parent = extra_section
            /\ Ids(new_neuron') = Ids(new_neuron) \cup Range(to)
            /\ Range(to) \cap Ids(new_neuron) = {}
            /\ \A id \in Ids(new_neuron) \ {extra_section} :
                   new_neuron'.sections[id] = new_neuron.sections[id]
            /\ new_neuron'.sections[extra_section].points =
                   new_neuron.sections[extra_section].points
            /\ Len(to) = Len(from)
            /\ \A i \in 1..Len(from) :
                   /\ new_neuron'.sections[to[i]].points = Translated(before(i).points, t)
                   /\ new_neuron'.sections[to[i]].diameters = before(i).diameters
                   /\ new_neuron'.sections[to[i]].type = before(i).type
                   /\ Len(new_neuron'.sections[to[i]].children) = Len(before(i).children)
                   /\ original'.sections[from[i]].points = Translated(before(i).points, t)
                   /\ original'.sections[from[i]].diameters = before(i).diameters
    ]_vars

C8_Witness ==
    /\ pc = "grafted"
    /\ CutIndex(Source.sections[start_graft].points, y_start_graft, upward) > 0
    /\ Len(IterDepth(Source, start_graft)) > 1
    /\ y_diff # 0

\* C9: cut_and_graft_coordinate returns upward true iff the dendrite's
\* interval lies below the axon's (its lower bound is the smaller one; for
\* intervals that do not overlap, the dendrite's is entirely below); upward,
\* the cut is at the dendrite's y_max and the graft at the axon's y_min; not
\* upward, the cut is at the dendrite's y_min and the graft at the axon's
\* y_max.
C9_CutAndGraftCoordinate ==
    call = "cut_and_graft_coordinate"
        => /\ result.upward = (arg_rules["dendrite"].y_min < arg_rules["axon"].y_min)
           /\ arg_rules["dendrite"].y_max <= arg_rules["axon"].y_min => result.upward
           /\ arg_rules["axon"].y_max <= arg_rules["dendrite"].y_min => ~result.upward
           /\ result.upward
                 => /\ result.y_start_cut = arg_rules["dendrite"].y_max
                    /\ result.y_start_graft = arg_rules["axon"].y_min
           /\ ~result.upward
                 => /\ result.y_start_cut = arg_rules["dendrite"].y_min
                    /\ result.y_start_graft = arg_rules["axon"].y_max

C9_Witness ==
    /\ call = "cut_and_graft_coordinate"
    /\ ~result.upward
    /\ arg_rules["axon"].y_max <= arg_rules["dendrite"].y_min
    /\ result.y_start_cut > result.y_start_graft

\* the axon bounds read from the annotation file of the current file
ReadAxon == read_placement_rules(ParseXml(file_dir[f]))["axon"]

\* the output written last
LastOutput == written[OutputName(CurrentFile.stem, height_added)]

\* C10: for every height shrink_all_heights processes, the axon annotation
\* written with the variant has the y_min and y_max read from the annotation
\* file, each increased by the displacement cut_and_graft returned for that
\* height: the width is kept and the shifts of earlier heights do not add up.
C10_AnnotationShift ==
    (pc = "heights" /\ h > 0)
        => /\ LastOutput.xml["axon"] =
                  Interval(ReadAxon.y_min + y_diff, ReadAxon.y_max + y_diff)
           /\ LastOutput.xml["dendrite"] = ParseXml(file_dir[f])["dendrite"]
           /\ LastOutput.xml = xml_tree

C10_Witness ==
    /\ pc = "heights"
    /\ h = 2
    /\ y_diff # 0
    /\ \E name \in DOMAIN written :
          /\ name # OutputName(CurrentFile.stem, height_added)
          /\ name[1] = CurrentFile.stem
          /\ written[name].xml["axon"] # ParseXml(file_dir[f])["axon"]
          /\ written[name].xml["axon"] # LastOutput.xml["axon"]

\* C16: a second run of cut_and_graft on the same file with the same
\* orientation, the same two thresholds and the same height gives the tree
\* the first run gave, section for section with the same points and
\* diameters, and returns the same Y displacement (the annotation written
\* with the first run is the one read shifted by the second run's).
C16_RepeatedRun ==
    (pc = "grafted" /\ OutputName(CurrentFile.stem, height_added) \in DOMAIN written)
        => /\ LastOutput.h5 = new_neuron
           /\ LastOutput.xml["axon"] =
                 Interval(rules["axon"].y_min + y_diff, rules["axon"].y_max + y_diff)

C16_Witness ==
    /\ pc = "grafted"
    /\ h = 2
    /\ hs[1] = hs[2]
    /\ OutputName(CurrentFile.stem, height_added) \in DOMAIN written
    /\ new_neuron # Source
    /\ y_diff # 0

\* the Y coordinate of the last point of a section of the tree as loaded
LastY(id) == Last(Source.sections[id].points)[Y_INDEX]

\* C19: on the walk from the root to the anchor, start_cut is the first
\* section whose last point has (Y > y_start_cut) = upward and start_graft
\* the first section after start_cut whose last point has
\* (Y > y_start_graft) = upward; start_graft is never start_cut.
C19_FirstCrossings ==
    pc \in {"located", "cut", "bridged", "grafted"}
        => \A walk \in {MainBranch(Source)} :
              \E i, j \in 1..Len(walk) :
                 /\ walk[i] = start_cut
                 /\ walk[j] = start_graft
                 /\ i < j
                 /\ (LastY(walk[i]) > y_start_cut) = upward
                 /\ \A k \in 1..(i - 1) : (LastY(walk[k]) > y_start_cut) # upward
                 /\ (LastY(walk[j]) > y_start_graft) = upward
                 /\ \A k \in (i + 1)..(j - 1) : (LastY(walk[k]) > y_start_graft) # upward

C19_Witness ==
    /\ pc = "located"
    /\ (LastY(start_cut) > y_start_graft) = upward
    /\ start_graft # start_cut
    /\ Source.sections[start_graft].parent = start_cut

\* the path length of a section: its own length and that of every ancestor
RECURSIVE PathLength(_, _)
PathLength(m, id) ==
    SectionLength(m.sections[id].points)
    + (IF m.sections[id].parent = NoSection THEN 0
       ELSE PathLength(m, m.sections[id].parent))

\* the position of a section in the traversal of the tree from a root
Position(order, id) == CHOOSE i \in 1..Len(order) : order[i] = id

\* C20: the anchor of the walk is a section of the axon's tree of maximal
\* path length, the first such section of the traversal of the axon, and
\* start_cut and start_graft are the anchor or ancestors of it.
C20_Anchor ==
    (pc \in {"located", "raised"} /\ h > 0 /\ Len(AxonRoots(Source)) = 1)
        => \A source \in {Source} :
           \A order \in {IterDepth(source, AxonRoots(source)[1])} :
           \A walk \in {MainBranch(source)} :
           \A longest \in {PathLength(source, Last(walk))} :
              /\ Last(walk) \in Range(order)
              /\ \A i \in 1..Len(order) :
                    \A length \in {PathLength(source, order[i])} :
                       /\ length <= longest
                       /\ length = longest => Position(order, Last(walk)) <= i
              /\ pc = "located" => {start_cut, start_graft} \subseteq Range(walk)

C20_Witness ==
    /\ pc = "located"
    /\ \E id \in Subtree(Source, AxonRoots(Source)[1]) :
          /\ id \notin Range(MainBranch(Source))
          /\ PathLength(Source, id) = PathLength(Source, Last(MainBranch(Source)))

\* ------------------------------------------------- properties of the jitter
\* the tree of the file the jitter engine was given, as it is loaded
JitterSource == JitterLoad(morphology)

\* the segments of a section of a tree
Segments(m, id) == Diff(m.sections[id].points)

Sign(x) == IF x > 0 THEN 1 ELSE IF x < 0 THEN -1 ELSE 0

\* the vector new is shorter than 1% of the vector old
ShorterThanOnePercent(new, old) ==
    LET part == <<Quot(old[1], Percent), Quot(old[2], Percent), Quot(old[3], Percent)>>
        reach == Abs(part[1]) + Abs(part[2]) + Abs(part[3])
    IN  IF \E c \in 1..3 : Abs(new[c]) >= reach THEN FALSE
        ELSE Dot(new, new) < Dot(part, part)

SameDirection(new, old) == \A c \in 1..3 : Sign(new[c]) = Sign(old[c])

\* C11 as claimed: after scale_morphology, whatever the segment-level and
\* section-level parameters, no segment is shorter than 1% of the segment
\* it comes from and none has its direction inverted.
C11_NoSegmentBelowOnePercent ==
    pc = "scaled"
        => \A id \in Ids(neuron) :
           \A i \in 1..Len(Segments(neuron, id)) :
              /\ ~ShorterThanOnePercent(Segments(neuron, id)[i],
                                        Segments(JitterSource, id)[i])
              /\ SameDirection(Segments(neuron, id)[i], Segments(JitterSource, id)[i])

\* the factor applied for a sampled one
Applied(sampled) == IF sampled < 1 THEN 1 ELSE sampled

\* the factor applied on coordinate c for a sampled factor and an axis
AppliedOn(sampled, axis, c) ==
    IF axis = AxisNone \/ axis = c - 1 THEN Applied(sampled) ELSE Percent

\* C12: every factor sampled below 0.01, for a segment or for the section,
\* is applied as 0.01 and every other factor as sampled: each segment is the
\* segment it comes from times the two applied factors; a section-level mean
\* of -2 with std 0 and no segment scaling gives segments of exactly 1% of
\* their original length.
C12_MinimumClamp ==
    pc = "scaled"
        => /\ \A id \in Ids(neuron) :
              \A i \in 1..Len(Segments(neuron, id)) :
              \A c \in 1..3 :
                 Segments(neuron, id)[i][c] =
                     AppliedOn(scalings[id].segments[i + 1], segment_scaling.axis, c)
                     * AppliedOn(scalings[id].section, section_scaling.axis, c)
                     * Quot(Segments(JitterSource, id)[i][c], Grid)
           /\ (segment_scaling = DefaultScaling
               /\ section_scaling = ScaleParameters(-2 * Percent, 0, AxisNone))
                 => \A id \in Ids(neuron) :
                    \A i \in 1..Len(Segments(neuron, id)) :
                       Scaled(Percent, Segments(neuron, id)[i])
                           = Segments(JitterSource, id)[i]

C12_Witness ==
    /\ pc = "scaled"
    /\ morphology.stem = "simple"
    /\ segment_scaling = DefaultScaling
    /\ section_scaling = ScaleParameters(-2 * Percent, 0, AxisNone)
    /\ neuron.sections[0].points = <<<<0, 0, 0>>, <<0, 500, 0>>>>
    /\ neuron.sections[1].points = <<<<0, 500, 0>>, <<-500, 500, 0>>>>

\* the points of a section counted from its first point
Shape(points) == ShiftPoints(points, Scaled(-1, points[1]))

\* C13: after scale_morphology every non-root section starts at the new last
\* point of its parent, and it has the shape its own factors give it: the
\* subtrees of the children of a rescaled section are moved as they are.
C13_ScaledTreeContinuity ==
    pc = "scaled"
        => /\ Continuous(JitterSource)
           /\ Continuous(neuron)
           /\ \A id \in Ids(neuron) :
                 Shape(neuron.sections[id].points) =
                     Shape(new_points(JitterSource.sections[id].points,
                                      segment_scaling, section_scaling, scalings[id]))

C13_Witness ==
    /\ pc = "scaled"
    /\ Continuous(neuron)
    /\ \E id \in Ids(neuron) :
          /\ neuron.sections[id].parent # NoSection
          /\ neuron.sections[neuron.sections[id].parent].parent # NoSection
          /\ \A up \in Range(IterUpstream(neuron, id)) \ {id} :
                Last(neuron.sections[up].points) # Last(JitterSource.sections[up].points)
          /\ neuron.sections[id].points[1] # JitterSource.sections[id].points[1]

\* scale_morphology was given ScaleParameters(mean, 0, None) for the sections
\* and ScaleParameters() for the segments
SectionScalingOnly(mean) ==
    /\ pc = "scaled"
    /\ segment_scaling = DefaultScaling
    /\ section_scaling = ScaleParameters(mean, 0, AxisNone)

\* C14: with ScaleParameters(mean=m, std=0, axis=None), m >= 0.01, for the
\* sections and default parameters for the segments, every displacement of a
\* point of a section from the first point of that section is multiplied by
\* m and the children are attached again; with m = 2 the 2-section
\* morphology becomes [[0,0,0],[0,10,0]] and [[0,10,0],[-10,10,0]].
C14_SectionScaling ==
    /\ \A m \in {mean \in 1..(2 * Percent) : SectionScalingOnly(mean)} :
          /\ Continuous(neuron)
          /\ \A id \in Ids(neuron) :
                \A i \in 1..Len(neuron.sections[id].points) :
                   Scaled(Percent, Shape(neuron.sections[id].points)[i])
                       = Scaled(m, Shape(JitterSource.sections[id].points)[i])
    /\ (SectionScalingOnly(2 * Percent) /\ morphology.stem = "simple")
          => /\ neuron.sections[0].points = <<Scaled(Grid, <<0, 0, 0>>), Scaled(Grid, <<0, 10, 0>>)>>
             /\ neuron.sections[1].points = <<Scaled(Grid, <<0, 10, 0>>), Scaled(Grid, <<-10, 10, 0>>)>>

C14_Witness ==
    /\ SectionScalingOnly(2 * Percent)
    /\ morphology.stem = "simple"
    /\ neuron.sections[1].points[2] = Scaled(Grid, <<-10, 10, 0>>)

\* rotational_jitter was given an angle that makes a whole number of turns
WholeTurns ==
    /\ pc = "rotated"
    /\ rotation_params.std_angle = 0
    /\ rotation_params.mean_angle \in {0, 360}

\* C15: rotational_jitter with std_angle = 0 and mean_angle = 0 or 360 leaves
\* every coordinate of every point of every section as it is in the source.
C15_WholeTurnsChangeNothing ==
    WholeTurns
        => \A id \in Ids(JitterSource) :
              neuron.sections[id].points = JitterSource.sections[id].points

C15_Witness ==
    /\ WholeTurns
    /\ rotation_params.mean_angle = 360
    /\ \E id \in Ids(neuron) :
          /\ neuron.sections[id].parent # NoSection
          /\ neuron.sections[id].children # <<>>
    /\ neuron = JitterSource

\* C17 as claimed: the clone_army command reads its scaling means as
\* percentages of growth: with 100 as the segment-wise mean the factor of
\* the segments is 2, and a clone made with it and with nothing else
\* jittered has segments twice as long as those of its source.
C17_HundredPercentDoubles ==
    (pc = "clone_scaled" /\ options # <<>> /\ options.mean_segment_scaling = 100)
        => /\ segment_scaling.mean = 2 * Percent
           /\ options = Options(0, 0, 100, 0, 100, 0)
                 => \A id \in Ids(neuron) :
                    \A i \in 1..Len(Segments(neuron, id)) :
                       Segments(neuron, id)[i] = Scaled(2, Segments(JitterSource, id)[i])

\* nothing of the jitter of create_clones is random
NoDeviation ==
    /\ rotation_params.std_angle = 0
    /\ segment_scaling.std = 0
    /\ section_scaling.std = 0

\* C18: create_clones with nclones = n writes n files and returns their n
\* names in the order of the indexes 0..n-1; every clone is the jitter of a
\* copy of the source file loaded for it, whatever was done to the clone
\* before, so that with standard deviations of zero all clones are the same.
C18_CreateClones ==
    /\ pc = "cloned"
          => /\ Len(output_paths) = nclones
             /\ \A i \in 0..(nclones - 1) : output_paths[i + 1] = CloneName(morphology, i)
             /\ DOMAIN output_folder = Range(output_paths)
             /\ Cardinality(DOMAIN output_folder) = nclones
             /\ NoDeviation
                   => \A a, b \in DOMAIN output_folder : output_folder[a] = output_folder[b]
    /\ pc = "clone_loaded" => neuron = JitterSource
    /\ pc = "clone_scaled"
          => neuron = scale_morphology(
                          rotational_jitter(JitterSource, rotation_params, angles),
                          segment_scaling, section_scaling, scalings)

C18_Witness ==
    /\ pc = "cloned"
    /\ nclones = MaxClones
    /\ NoDeviation
    /\ \A name \in DOMAIN output_folder : output_folder[name] = neuron
    /\ neuron # JitterSource

\* ------------------------------------------- properties of the cut and graft
\* the two points of the call's section that bracket the plane, original[k-1]
\* and original[k] for the crossing index k
Bracket == [p1 |-> arg_section.points[ArgCutIndex],
            p2 |-> arg_section.points[ArgCutIndex + 1],
            d1 |-> arg_section.diameters[ArgCutIndex],
            d2 |-> arg_section.diameters[ArgCutIndex + 1]]

\* new is on the line from a to b at the fraction num / den
AtFraction(new, a, b, num, den) == (new - a) * den = num * (b - a)

\* C21: with a crossing index k > 0, cut_section_at_plane_coord replaces the
\* points, and in parallel the diameters, by [new] + original[k:] when
\* cut_before is true and by original[:k] + [new] when it is false, new being
\* the linear interpolation between original[k-1] and original[k] at the
\* plane's Y; the fraction lies in [0,1] with a non-zero denominator, there
\* are as many points as diameters and at least 2 points.
C21_TrimAtCrossing ==
    (call = "cut_section_at_plane_coord" /\ result.raised = "" /\ ArgCutIndex > 0)
        => \A k \in {ArgCutIndex} :
           \A b \in {Bracket} :
           \A num \in {arg_y_plane - b.p1[Y_INDEX]} :
           \A den \in {b.p2[Y_INDEX] - b.p1[Y_INDEX]} :
           \A n \in {Len(arg_section.points)} :
           \A at \in {IF arg_cut_before THEN 1 ELSE k + 1} :
              /\ den # 0
              /\ (den > 0 => 0 <= num /\ num <= den)
              /\ (den < 0 => den <= num /\ num <= 0)
              /\ result.section.points[at][Y_INDEX] = arg_y_plane
              /\ \A c \in 1..3 :
                    AtFraction(result.section.points[at][c], b.p1[c], b.p2[c], num, den)
              /\ AtFraction(result.section.diameters[at], b.d1, b.d2, num, den)
              /\ arg_cut_before
                    => /\ Tail(result.section.points) = SubSeq(arg_section.points, k + 1, n)
                       /\ Tail(result.section.diameters)
                             = SubSeq(arg_section.diameters, k + 1, n)
              /\ ~arg_cut_before
                    => /\ SubSeq(result.section.points, 1, k)
                             = SubSeq(arg_section.points, 1, k)
                       /\ SubSeq(result.section.diameters, 1, k)
                             = SubSeq(arg_section.diameters, 1, k)
                       /\ Len(result.section.points) = k + 1
              /\ Len(result.section.points) = Len(result.section.diameters)
              /\ Len(result.section.points) >= 2
              /\ result.section.type = arg_section.type

C21_Witness ==
    /\ call = "cut_section_at_plane_coord"
    /\ arg_cut_before
    /\ ArgCutIndex = 1
    /\ Len(arg_section.points) = 3
    /\ Len(result.section.points) = 3
    /\ Bracket.p1[Y_INDEX] < arg_y_plane
    /\ arg_y_plane < Bracket.p2[Y_INDEX]
    /\ Bracket.p1[1] # Bracket.p2[1]
    /\ Bracket.d1 # Bracket.d2
    /\ (arg_y_plane - Bracket.p1[Y_INDEX]) * 2 # Bracket.p2[Y_INDEX] - Bracket.p1[Y_INDEX]

\* C22: when the first point of the section already satisfies the crossing
\* condition (crossing index 0), cut_section_at_plane_coord changes neither
\* the points nor the diameters and raises no error, whatever cut_before is.
C22_NoTrimAtIndexZero ==
    (call = "cut_section_at_plane_coord"
     /\ (arg_section.points[1][Y_INDEX] > arg_y_plane) = arg_upward)
        => /\ result.raised = ""
           /\ result.section.points = arg_section.points
           /\ result.section.diameters = arg_section.diameters

C22_Witness ==
    /\ call = "cut_section_at_plane_coord"
    /\ arg_cut_before
    /\ (arg_section.points[1][Y_INDEX] > arg_y_plane) = arg_upward
    /\ (arg_section.points[2][Y_INDEX] > arg_y_plane) # arg_upward
    /\ arg_section.points[1] # arg_section.points[2]
    /\ result.raised = ""

\* C23: add_vertical_segment appends to start_cut, as it is in the new
\* morphology (after trimming), one new child section of exactly two points:
\* start_cut's current last point and that point offset by (0, height, 0),
\* for a positive or a negative height; both points carry start_cut's last
\* diameter, and start_cut's own points are unchanged.
C23_VerticalSegment ==
    [][pc = "cut" =>
        \A section \in {new_neuron.sections[start_cut]} :
        \A bridge \in {new_neuron'.sections[extra_section']} :
           /\ extra_section' \notin Ids(new_neuron)
           /\ Ids(new_neuron') = Ids(new_neuron) \cup {extra_section'}
           /\ \A id \in Ids(new_neuron) \ {start_cut} :
                 new_neuron'.sections[id] = new_neuron.sections[id]
           /\ new_neuron'.sections[start_cut].children
                 = Append(section.children, extra_section')
           /\ new_neuron'.sections[start_cut].points = section.points
           /\ new_neuron'.sections[start_cut].diameters = section.diameters
           /\ bridge.parent = start_cut
           /\ bridge.children = <<>>
           /\ Len(bridge.points) = 2
           /\ bridge.points[1] = Last(section.points)
           /\ bridge.points[2] = <<Last(section.points)[1],
                                   Last(section.points)[Y_INDEX] + height_added,
                                   Last(section.points)[3]>>
           /\ bridge.diameters = <<Last(section.diameters), Last(section.diameters)>>
           /\ CutIndex(Source.sections[start_cut].points, y_start_cut, upward) > 0
                 => bridge.points[1][Y_INDEX] = y_start_cut
    ]_vars

C23_Witness ==
    /\ pc = "bridged"
    /\ height_added < 0
    /\ CutIndex(Source.sections[start_cut].points, y_start_cut, upward) > 0
    /\ new_neuron.sections[extra_section].points[1]
          # Last(Source.sections[start_cut].points)
    /\ new_neuron.sections[extra_section].points[2][Y_INDEX]
          = new_neuron.sections[extra_section].points[1][Y_INDEX] + height_added

\* the positions, in the traversal order, of the children of the section at
\* position i
ChildPositions(m, order, i) ==
    [c \in 1..Len(m.sections[order[i]].children) |->
        Position(order, m.sections[order[i]].children[c])]

\* C24: in the morphology cut_and_graft returns, start_cut has exactly one
\* child (the bridge), the bridge has exactly one child (the graft root), the
\* graft root carries the descendant subtree start_graft has in the source
\* (same shape, types and diameters, the points moved by one vector), and
\* every other former descendant of start_cut is absent.
C24_GraftedTopology ==
    pc = "grafted"
        => \A source \in {Source} :
           /\ new_neuron.sections[start_cut].children = <<extra_section>>
           /\ Len(new_neuron.sections[extra_section].children) = 1
           /\ \A id \in Subtree(source, start_cut) \ {start_cut} :
                 id \notin Ids(new_neuron)
           /\ \A graft \in {new_neuron.sections[extra_section].children[1]} :
              \A from \in {IterDepth(source, start_graft)} :
              \A to \in {IterDepth(new_neuron, graft)} :
              \A t \in {VSub(Last(new_neuron.sections[graft].points),
                             Last(source.sections[start_graft].points))} :
                 /\ new_neuron.sections[graft].parent = extra_section
                 /\ Len(to) = Len(from)
                 /\ Ids(new_neuron)
                       = (Ids(source) \ (Subtree(source, start_cut) \ {start_cut}))
                         \cup {extra_section} \cup Range(to)
                 /\ \A i \in 1..Len(from) :
                       /\ ChildPositions(new_neuron, to, i) = ChildPositions(source, from, i)
                       /\ new_neuron.sections[to[i]].type = source.sections[from[i]].type
                       /\ i > 1 =>
                            /\ new_neuron.sections[to[i]].parent
                                  = to[Position(from, source.sections[from[i]].parent)]
                            /\ new_neuron.sections[to[i]].diameters
                                  = source.sections[from[i]].diameters
                            /\ new_neuron.sections[to[i]].points
                                  = Translated(source.sections[from[i]].points, t)

C24_Witness ==
    /\ pc = "grafted"
    /\ Len(Source.sections[start_cut].children) = 2
    /\ Source.sections[start_graft].parent # start_cut
    /\ Len(Source.sections[start_graft].children) = 2
    /\ Cardinality(Ids(new_neuron)) < Cardinality(Ids(Source))

\* C28: in the morphology cut_and_graft returns, every section that is
\* neither start_cut nor a descendant of it in the source (the dendrites, the
\* axon sections upstream of start_cut or branching off before it) has the
\* points, diameters, type, parent and children it has in the source, the
\* root sections are the source's, and the points of start_cut before the
\* crossing index are unchanged.
C28_OutsideTheCut ==
    pc = "grafted"
        => \A source \in {Source} :
           \A k \in {CutIndex(source.sections[start_cut].points, y_start_cut, upward)} :
              /\ new_neuron.root_sections = source.root_sections
              /\ \A id \in Ids(source) \ Subtree(source, start_cut) :
                    /\ id \in Ids(new_neuron)
                    /\ new_neuron.sections[id] = source.sections[id]
              /\ new_neuron.sections[start_cut].type = source.sections[start_cut].type
              /\ new_neuron.sections[start_cut].parent = source.sections[start_cut].parent
              /\ k > 0 => /\ SubSeq(new_neuron.sections[start_cut].points, 1, k)
                                = SubSeq(source.sections[start_cut].points, 1, k)
                          /\ SubSeq(new_neuron.sections[start_cut].diameters, 1, k)
                                = SubSeq(source.sections[start_cut].diameters, 1, k)
              /\ k = 0 => /\ new_neuron.sections[start_cut].points
                                = source.sections[start_cut].points
                          /\ new_neuron.sections[start_cut].diameters
                                = source.sections[start_cut].diameters

C28_Witness ==
    /\ pc = "grafted"
    /\ Source.sections[start_cut].parent # NoSection
    /\ CutIndex(Source.sections[start_cut].points, y_start_cut, upward) > 0
    /\ \E id \in Ids(Source) \ Subtree(Source, start_cut) :
          Source.sections[id].type = "dendrite"
    /\ \E id \in Ids(Source) \ Subtree(Source, start_cut) :
          /\ Source.sections[id].type = "axon"
          /\ Source.sections[id].children = <<>>
    /\ new_neuron # Source

\* C29: when both plane cuts of cut_and_graft trim (crossing index > 0 on
\* start_cut and on start_graft), the Y displacement returned is
\* y_start_cut + height - y_start_graft and the first point of the graft
\* root has Y equal to y_start_cut + height.
C29_Displacement ==
    (/\ pc = "grafted"
     /\ CutIndex(Source.sections[start_cut].points, y_start_cut, upward) > 0
     /\ CutIndex(Source.sections[start_graft].points, y_start_graft, upward) > 0)
        => /\ y_diff = y_start_cut + height_added - y_start_graft
           /\ \A graft \in {Last(new_neuron.sections[extra_section].children)} :
                 new_neuron.sections[graft].points[1][Y_INDEX] = y_start_cut + height_added

C29_Witness ==
    /\ pc = "grafted"
    /\ ~upward
    /\ height_added < 0
    /\ CutIndex(Source.sections[start_cut].points, y_start_cut, upward) > 0
    /\ CutIndex(Source.sections[start_graft].points, y_start_graft, upward) > 0
    /\ y_diff = y_start_cut + height_added - y_start_graft
    /\ y_diff # 0

\* the files run has recorded as failed
Failed == {errors[i][1] : i \in 1..Len(errors)}

\* the outputs written for an input file, whatever the height
OutputsOf(name) == {out \in DOMAIN written : out[1] = Lookup(name).stem}

\* C30: when run records an input file as failed (NoAxon, NoSectionToCut
\* or NoAxonAnnotation), no morphology and no annotation has been written
\* for that input for any height: the failure comes before the first write
\* of the file's loop over the heights, and recording it leaves the outputs
\* of the earlier files as they are.
C30_FailedFilesWriteNothing ==
    /\ [](/\ \A name \in Failed : OutputsOf(name) = {}
          /\ (pc = "raised" /\ exc.kind \in Caught)
                => /\ h <= 1
                   /\ OutputsOf(file_dir[f]) = {})
    /\ [][pc = "raised" => written' = written]_vars

C30_Witness ==
    /\ pc = "run"
    /\ f = 2
    /\ errors = <<<<file_dir[2], "No section to graft from">>>>
    /\ Len(hs) = 2
    /\ Cardinality(OutputsOf(file_dir[1])) = 2
    /\ OutputsOf(file_dir[2]) = {}

\* ------------------------------------------ properties of the jitter, again
\* a section that is not a root and has no children
Terminal(m, id) == m.sections[id].parent # NoSection /\ m.sections[id].children = <<>>

\* the tree m with the subtree of section id turned by the angle drawn for
\* the section, about direction through the first point of the section
Turned(m, id, direction) ==
    transform_rotate(m, id, Normalised(direction), angles[id], m.sections[id].points[1])

\* the tree m with every child of section id, all of them terminal, turned
\* about the end of section id as it is in m
ChildrenTurned(m, id) ==
    [m EXCEPT !.sections =
        [s \in Ids(m) |->
            IF m.sections[s].parent = id
            THEN Turned(m, s, ParentDirection(m.sections[id].points,
                                              rotation_params.numberpoint)).sections[s]
            ELSE m.sections[s]]]

\* what the pass makes of a child of a root whose own children are terminal:
\* the children are turned first, the section after them, about the
\* principal direction of the subtree its children were turned in
ChildrenFirst(m, id) ==
    IF m.sections[id].children = <<>>
    THEN Turned(m, id, ParentDirection(m.sections[m.sections[id].parent].points,
                                       rotation_params.numberpoint))
    ELSE Turned(ChildrenTurned(m, id), id, _principal_direction(ChildrenTurned(m, id), id))

\* C25: rotational_jitter never turns about a root section: whatever the
\* parameters, the points of every root section are after the pass what they
\* were before it, while the descendants of the root are turned in
\* post-order, the children of a section before the section.
C25_RootsAreNotTurned ==
    pc = "rotated"
        => \A source \in {JitterSource} :
           /\ Ids(neuron) = Ids(source)
           /\ \A root \in Range(source.root_sections) :
                 /\ neuron.sections[root].points = source.sections[root].points
                 /\ \A id \in Range(source.sections[root].children) :
                       /\ \A leaf \in Range(source.sections[id].children) :
                             Terminal(source, leaf)
                       /\ \A expected \in {ChildrenFirst(source, id)} :
                          \A s \in Subtree(source, id) :
                             neuron.sections[s].points = expected.sections[s].points

C25_Witness ==
    /\ pc = "rotated"
    /\ rotation_params.mean_angle = 90
    /\ \E id \in Ids(neuron) :
          /\ neuron.sections[id].parent # NoSection
          /\ neuron.sections[id].children # <<>>
          /\ neuron.sections[id].points # JitterSource.sections[id].points
          /\ \A leaf \in Range(neuron.sections[id].children) :
                neuron.sections[leaf].points
                    # Turned(JitterSource, id,
                             _principal_direction(JitterSource, id)).sections[leaf].points
    /\ \A root \in Range(neuron.root_sections) :
          neuron.sections[root].points = JitterSource.sections[root].points

\* C26: scale_morphology changes no diameter and no number of points of any
\* section, nor the sections of the tree and their links: only coordinates
\* of points are replaced, and the first point of every root section stays
\* where it was.
C26_ScalingFrame ==
    pc = "scaled"
        => \A source \in {JitterSource} :
           /\ Ids(neuron) = Ids(source)
           /\ neuron.root_sections = source.root_sections
           /\ neuron.counter = source.counter
           /\ \A id \in Ids(source) :
                 /\ neuron.sections[id].diameters = source.sections[id].diameters
                 /\ Len(neuron.sections[id].points) = Len(source.sections[id].points)
                 /\ neuron.sections[id].type = source.sections[id].type
                 /\ neuron.sections[id].parent = source.sections[id].parent
                 /\ neuron.sections[id].children = source.sections[id].children
           /\ \A root \in Range(source.root_sections) :
                 neuron.sections[root].points[1] = source.sections[root].points[1]

C26_Witness ==
    /\ pc = "scaled"
    /\ morphology.stem = "offset"
    /\ neuron.sections[0].points[1] = Scaled(Grid, <<2, 3, 0>>)
    /\ \A i \in 2..3 :
          neuron.sections[0].points[i] # JitterSource.sections[0].points[i]
    /\ neuron.sections[0].diameters = <<3, 2, 1>>

\* the parameters leave coordinate c as it is: they name another axis
Restricted(params, c) == params.axis # AxisNone /\ params.axis # c - 1

\* the factor on coordinate c for a factor drawn with the parameters
FactorOn(params, drawn, c) == IF Restricted(params, c) THEN Percent ELSE drawn

\* C27: when the axis of a ScaleParameters is set, at the segment level or at
\* the section level, only that component of the displacements is multiplied
\* by the factor drawn (of at least 0.01) and the other two get the factor 1;
\* with axis None one factor multiplies the three components.  Section-level
\* mean 2 on axis 0 leaves the root [0,0,0]->[0,5,0] of the 2-section
\* morphology as it is and maps its child to [0,5,0]->[-10,5,0].
C27_AxisRestriction ==
    pc = "scaled"
        => /\ \A id \in Ids(neuron) :
              \A i \in 1..Len(Segments(neuron, id)) :
              \A c \in 1..3 :
              \A old \in {Segments(JitterSource, id)[i][c]} :
              \A new \in {Segments(neuron, id)[i][c]} :
                 (scalings[id].segments[i + 1] >= MinimumScaling
                  /\ scalings[id].section >= MinimumScaling)
                    => /\ (Restricted(segment_scaling, c) /\ Restricted(section_scaling, c))
                             => new = old
                       /\ new * Percent
                             = FactorOn(segment_scaling, scalings[id].segments[i + 1], c)
                               * FactorOn(section_scaling, scalings[id].section, c)
                               * Quot(old, Percent)
           /\ (morphology.stem = "simple"
               /\ segment_scaling = DefaultScaling
               /\ section_scaling = ScaleParameters(2 * Percent, 0, 0))
                 => /\ neuron.sections[0].points = JitterSource.sections[0].points
                    /\ neuron.sections[1].points
                          = <<Scaled(Grid, <<0, 5, 0>>), Scaled(Grid, <<-10, 5, 0>>)>>

C27_Witness ==
    /\ pc = "scaled"
    /\ morphology.stem = "simple"
    /\ segment_scaling = ScaleParameters(2 * Percent, 0, 1)
    /\ section_scaling = ScaleParameters(2 * Percent, 0, 0)
    /\ neuron.sections[0].points = <<Scaled(Grid, <<0, 0, 0>>), Scaled(Grid, <<0, 10, 0>>)>>
    /\ neuron.sections[1].points = <<Scaled(Grid, <<0, 10, 0>>), Scaled(Grid, <<-10, 10, 0>>)>>

====
